---------------------------- MODULE Spec2Model ----------------------------
(***************************************************************************)
(* A model of the retrieval-augmented answer pipeline (src/rag_pipeline.py)*)
(* : module initialisation with its persisted FAISS index, and             *)
(* get_answer / generate_response with the fallback policy and the         *)
(* citation aggregation.                                                   *)
(*                                                                         *)
(* Python strings are TLA+ strings; TLC evaluates Len, \o and SubSeq on    *)
(* them, and the string functions the code calls (strip, lower, in,        *)
(* basename, join, sorted, int, str) are computed character by character.  *)
(***************************************************************************)
EXTENDS Integers, Sequences, FiniteSets, TLC

(***************************************************************************)
(* Bounds of the model.                                                    *)
(***************************************************************************)
\* The longest list of source documents the chain returns in the model
\* (the retriever returns at most k = 5, src/rag_pipeline.py:49).
MaxDocs == 3

\* The number of versions a document of the corpus directory goes through.
MaxVersion == 2

(***************************************************************************)
(* Python string functions.                                                *)
(***************************************************************************)
\* The characters of the model's strings in code point order.
AsciiOrder == " '+,-./0123456789ABCDEFGHIJKLMNOPQRSTUVWXYZ_abcdefghijklmnopqrstuvwxyz"

UpperCase == "ABCDEFGHIJKLMNOPQRSTUVWXYZ"

LowerCase == "abcdefghijklmnopqrstuvwxyz"

Digits == "0123456789"

Whitespace == {" ", "\t", "\n", "\r"}

CharAt(s, i) == SubSeq(s, i, i)

\* The position of character c in string t, 0 when it is not there.
IndexOf(c, t) ==
    IF \E i \in 1..Len(t) : CharAt(t, i) = c
    THEN CHOOSE i \in 1..Len(t) : CharAt(t, i) = c
    ELSE 0

\* ord(c), up to an order-preserving renumbering.
Ord(c) == IndexOf(c, AsciiOrder)

\* str.lower() of one character.
LowerChar(c) ==
    IF IndexOf(c, UpperCase) > 0
    THEN CharAt(LowerCase, IndexOf(c, UpperCase))
    ELSE c

RECURSIVE PyLower(_)
\* str.lower()
PyLower(s) ==
    IF Len(s) = 0 THEN ""
    ELSE LowerChar(CharAt(s, 1)) \o PyLower(SubSeq(s, 2, Len(s)))

RECURSIVE LStrip(_)
LStrip(s) ==
    IF Len(s) > 0 /\ CharAt(s, 1) \in Whitespace
    THEN LStrip(SubSeq(s, 2, Len(s)))
    ELSE s

RECURSIVE RStrip(_)
RStrip(s) ==
    IF Len(s) > 0 /\ CharAt(s, Len(s)) \in Whitespace
    THEN RStrip(SubSeq(s, 1, Len(s) - 1))
    ELSE s

\* str.strip()
PyStrip(s) == RStrip(LStrip(s))

\* p in s, for strings
PyContains(p, s) ==
    \E i \in 1..(Len(s) - Len(p) + 1) : SubSeq(s, i, i + Len(p) - 1) = p

RECURSIVE StrLess(_, _)
\* a < b, for strings: lexicographic by code point
StrLess(a, b) ==
    IF Len(b) = 0 THEN FALSE
    ELSE IF Len(a) = 0 THEN TRUE
    ELSE IF CharAt(a, 1) = CharAt(b, 1)
         THEN StrLess(SubSeq(a, 2, Len(a)), SubSeq(b, 2, Len(b)))
         ELSE Ord(CharAt(a, 1)) < Ord(CharAt(b, 1))

RECURSIVE PySorted(_)
\* sorted(S) of a set or list of distinct strings, as a sequence
PySorted(S) ==
    IF S = {} THEN << >>
    ELSE LET m == CHOOSE x \in S : \A y \in S \ {x} : StrLess(x, y)
         IN  <<m>> \o PySorted(S \ {m})

RECURSIVE PyJoin(_, _)
\* sep.join(xs)
PyJoin(sep, xs) ==
    IF Len(xs) = 0 THEN ""
    ELSE IF Len(xs) = 1 THEN xs[1]
    ELSE xs[1] \o sep \o PyJoin(sep, Tail(xs))

RECURSIVE BaseName(_)
\* os.path.basename(p): what follows the last "/"
BaseName(p) ==
    IF \E i \in 1..Len(p) : CharAt(p, i) = "/"
    THEN BaseName(SubSeq(p, IndexOf("/", p) + 1, Len(p)))
    ELSE p

RECURSIVE ParseDigits(_, _)
\* The value of a string of decimal digits, read left to right.
ParseDigits(s, acc) ==
    IF Len(s) = 0 THEN acc
    ELSE ParseDigits(SubSeq(s, 2, Len(s)), 10 * acc + (IndexOf(CharAt(s, 1), Digits) - 1))

AllDigits(s) == Len(s) > 0 /\ \A i \in 1..Len(s) : IndexOf(CharAt(s, i), Digits) > 0

\* int(s) of a string: surrounding whitespace and one sign are accepted, then
\* decimal digits; anything else raises ValueError (ok = FALSE).
PyIntOfStr(s) ==
    LET t == PyStrip(s)
        signed == Len(t) > 0 /\ CharAt(t, 1) \in {"+", "-"}
        body == IF signed THEN SubSeq(t, 2, Len(t)) ELSE t
    IN  IF AllDigits(body)
        THEN [ok |-> TRUE,
              n |-> IF signed /\ CharAt(t, 1) = "-"
                    THEN 0 - ParseDigits(body, 0) ELSE ParseDigits(body, 0)]
        ELSE [ok |-> FALSE, n |-> 0]

RECURSIVE PyStr(_)
\* str(n) of an int
PyStr(n) ==
    IF n < 0 THEN "-" \o PyStr(0 - n)
    ELSE IF n < 10 THEN CharAt(Digits, n + 1)
    ELSE PyStr(n \div 10) \o CharAt(Digits, (n % 10) + 1)

(***************************************************************************)
(* Passage metadata, as the loaders and the vector store hand it to        *)
(* get_answer: a dict that may lack "source" and "page".                    *)
(***************************************************************************)
\* The values md.get("page", None) can have: None (also when the key is
\* missing), an int, or a str.
NoPage == [kind |-> "none", n |-> 0, s |-> ""]

IntPage(k) == [kind |-> "int", n |-> k, s |-> ""]

StrPage(t) == [kind |-> "str", n |-> 0, s |-> t]

\* A passage whose metadata has a "source", and one whose metadata has none.
Meta(src, pg) == [has_source |-> TRUE, source |-> src, page |-> pg]

MetaNoSource(pg) == [has_source |-> FALSE, source |-> "", page |-> pg]

\* The passages of the model's index. build_faiss_index.py globs the corpus
\* directory recursively, so a source path may lie in a subdirectory;
\* rag_pipeline.py lists the directory itself. A page is an int, a str, or absent.
Metadatas ==
    {Meta("docs/b.pdf", IntPage(3)),
     Meta("docs/b.pdf", NoPage),
     Meta("docs/a.pdf", IntPage(12)),
     Meta("docs/a.pdf", NoPage),
     Meta("docs/sub/a.pdf", StrPage("7")),
     MetaNoSource(StrPage("x")),
     MetaNoSource(IntPage(3))}

\* result["source_documents"]: a list of at most MaxDocs documents.
DocLists == UNION {[1..n -> Metadatas] : n \in 0..MaxDocs}

\* result["result"]: what the grounded chain may answer.
Answers ==
    {"Hard hats are required.",
     "I don't know.",
     " I AM NOT SURE.\n",
     "Sorry, no relevant information found",
     "i dont know"}

\* What the direct completion may answer.
LlmOutputs == {"PPE includes hard hats.", "I don't know."}

Queries == {"What PPE is required?", "Who is the CEO?"}

(***************************************************************************)
(* get_answer, line by line.                                               *)
(***************************************************************************)
\* md.get("source", "Unknown")
MdGetSource(md) == IF md.has_source THEN md.source ELSE "Unknown"

\* int(pg) inside try/except (TypeError, ValueError): ok = FALSE is "pass".
PyInt(pg) ==
    IF pg.kind = "int" THEN [ok |-> TRUE, n |-> pg.n]
    ELSE IF pg.kind = "str" THEN PyIntOfStr(pg.s)
    ELSE [ok |-> FALSE, n |-> 0]

\* SourcesOf with os.path.basename forgotten.
SourcesOf_FullPath(ds) == {MdGetSource(ds[i]) : i \in 1..Len(ds)}

\* The set `sources` after the loop over docs.
SourcesOf(ds) == {BaseName(MdGetSource(ds[i])) : i \in 1..Len(ds)}

\* PagesOf counting a passage without a usable page as page 0.
PagesOf_ZeroWhenUnusable(ds) ==
    [i \in 1..Len(ds) |-> IF PyInt(ds[i].page).ok THEN PyInt(ds[i].page).n ELSE 0]

RECURSIVE PagesOf(_)
\* The list `pages` after the loop over docs.
PagesOf(ds) ==
    IF Len(ds) = 0 THEN << >>
    ELSE LET r == PyInt(ds[1].page)
         IN  (IF r.ok THEN <<r.n>> ELSE << >>) \o PagesOf(Tail(ds))

fallback_phrases ==
    <<"i don't know",
      "i am not sure",
      "i'm sorry, but i don't know",
      "no relevant information",
      "as it is unrelated to the context">>

\* AnyPhraseIn with lower() forgotten.
AnyPhraseIn_NoLower(ans) ==
    LET t == PyStrip(ans)
    IN  \E k \in 1..Len(fallback_phrases) : PyContains(fallback_phrases[k], t)

\* any(phrase in answer.strip().lower() for phrase in fallback_phrases)
AnyPhraseIn(ans) ==
    LET t == PyLower(PyStrip(ans))
    IN  \E k \in 1..Len(fallback_phrases) : PyContains(fallback_phrases[k], t)

\* AnyPhraseIn, tabulated once over the strings of the model.
AnyPhraseTable == [a \in Answers \cup LlmOutputs |-> AnyPhraseIn(a)]

\* FallbackNeeded with `not docs` forgotten.
FallbackNeeded_SkipsEmptyCheck(ds, ans) == AnyPhraseTable[ans]

\* FallbackNeeded falling back also when no passage has a page.
FallbackNeeded_AlsoWithoutPages(ds, ans) ==
    Len(ds) = 0 \/ AnyPhraseTable[ans] \/ Len(PagesOf(ds)) = 0

\* fallback_needed = (not docs or any(...))
FallbackNeeded(ds, ans) == Len(ds) = 0 \/ AnyPhraseTable[ans]

PyMin(ps) == CHOOSE m \in {ps[i] : i \in 1..Len(ps)} : \A j \in 1..Len(ps) : m <= ps[j]

PyMax(ps) == CHOOSE m \in {ps[i] : i \in 1..Len(ps)} : \A j \in 1..Len(ps) : m >= ps[j]

\* Python's None for start_page and end_page; an int otherwise.
None == [is_none |-> TRUE, n |-> 0]

Some(k) == [is_none |-> FALSE, n |-> k]

\* start_page = min(pages) if pages else None
StartPage(ps) == IF Len(ps) > 0 THEN Some(PyMin(ps)) ELSE None

\* end_page = max(pages) if pages else None
EndPage(ps) == IF Len(ps) > 0 THEN Some(PyMax(ps)) ELSE None

\* return answer, sorted(sources), start_page, end_page, timestamp
\* (the timestamp, a wall clock reading, is left out).
GetAnswerReturn(ans, srcs, ps) ==
    [answer |-> ans,
     sources |-> PySorted(srcs),
     start_page |-> StartPage(ps),
     end_page |-> EndPage(ps)]

(***************************************************************************)
(* generate_response: the tuple handed to the caller.                      *)
(***************************************************************************)
\* source_list = ", ".join(sources) if sources else "Unknown"
SourceList(srcs) == IF Len(srcs) > 0 THEN PyJoin(", ", srcs) ELSE "Unknown"

\* PageStr with the None test forgotten: str(None).
PageStr_NoNoneCheck(pg) == IF ~pg.is_none THEN PyStr(pg.n) ELSE "None"

\* sp = str(start_page) if start_page is not None else "N/A"
PageStr(pg) == IF ~pg.is_none THEN PyStr(pg.n) ELSE "N/A"

\* Response reporting "Unknown" when no page is known.
Response_UnknownWithoutPages(g) ==
    [answer |-> g.answer,
     source_list |-> IF Len(g.sources) > 0 /\ ~g.start_page.is_none
                     THEN PyJoin(", ", g.sources) ELSE "Unknown",
     start_page |-> PageStr(g.start_page),
     end_page |-> PageStr(g.end_page)]

\* What generate_response returns for get_answer's tuple g.
Response(g) ==
    [answer |-> g.answer,
     source_list |-> SourceList(g.sources),
     start_page |-> PageStr(g.start_page),
     end_page |-> PageStr(g.end_page)]

NoResponse == [answer |-> "", source_list |-> "", start_page |-> "", end_page |-> ""]

NoReturn == [answer |-> "", sources |-> << >>, start_page |-> None, end_page |-> None]

NoResult == [result |-> "", source_documents |-> << >>]

(***************************************************************************)
(* The corpus directory and the index, for module initialisation.          *)
(***************************************************************************)
\* The file names the corpus directory (DOCS_DIR) may hold.
FileNames == {"a.pdf", "B.PDF", "notes.txt"}

\* fn.lower().endswith(".pdf")
IsPdf(fn) ==
    LET t == PyLower(fn)
    IN  Len(t) >= 4 /\ SubSeq(t, Len(t) - 3, Len(t)) = ".pdf"

\* IsPdf, tabulated once over the file names of the model.
IsPdfTable == [fn \in FileNames |-> IsPdf(fn)]

\* A directory content: each file name's content version, 0 when the file is absent.
Corpora == [FileNames -> 0..MaxVersion]

\* docs, splits, texts, metadatas: the passages of the PDF files found in the
\* directory, each kept as its file's content version.
LoadAndSplit(dir) == [fn \in FileNames |-> IF IsPdfTable[fn] THEN dir[fn] ELSE 0]

\* The number of passages in a list of texts (one per loaded file in the model).
NumTexts(ts) == Cardinality({fn \in FileNames : ts[fn] > 0})

NoTexts == [fn \in FileNames |-> 0]

\* RecursiveCharacterTextSplitter(chunk_size=1000, chunk_overlap=200) of rag_pipeline.py
text_splitter == [chunk_size |-> 1000, chunk_overlap |-> 200]

\* An index (in memory or in FAISS_INDEX_DIR): the passages it was built from
\* and the splitters these passages were cut with.
NoIndex == [exists |-> FALSE, snap |-> NoTexts, splitters |-> {}]

\* FAISS.from_texts(texts=texts, ...) on the texts text_splitter produced.
FromTexts(ts) == [exists |-> TRUE, snap |-> ts, splitters |-> {text_splitter}]

VARIABLES
    corpus,          \* the content of DOCS_DIR
    key,             \* whether the environment holds OPENAI_API_KEY
    persisted,       \* the content of FAISS_INDEX_DIR (NoIndex: no such directory)
    intact,          \* whether the files of FAISS_INDEX_DIR are all of one index
    ipc,             \* where the module is: down, docs_loaded, built, saving, ready, failed
    err,             \* the exception that ended the import ("none": none)
    texts,           \* the module's `texts` and `metadatas`
    vectordb,        \* the module's `vectordb`
    embedCalls,      \* passages sent to the embedding capability by this start
    saveCalls,       \* save_local calls made by this start
    how,             \* how this start got its index: none, loaded, built
    served,          \* the index the retriever searched last
    spc,             \* where build_faiss_index.py is: down, docs_loaded, built, saving, done, failed
    sdocs,           \* the script's `docs`
    sdb,             \* the script's `db`
    serr,            \* the exception that ended the script ("none": none)
    pc,              \* where generate_response is: idle, chain, llm, done, error
    query,           \* the argument of generate_response
    result,          \* what qa_chain(query) returned
    answer,          \* get_answer's local `answer`
    sources,         \* get_answer's local `sources`
    pages,           \* get_answer's local `pages`
    fallback_needed, \* get_answer's local `fallback_needed`
    got,             \* the tuple get_answer returned
    ret,             \* the tuple generate_response returned
    chainCalls,      \* calls of qa_chain made by the current generate_response
    directCalls,     \* calls of llm.invoke made by the current generate_response
    llmPrompt,       \* the prompt of the llm.invoke call
    llmOut           \* what the llm.invoke call returned

indexVars == <<corpus, key, persisted, intact, ipc, err, texts, vectordb, embedCalls,
               saveCalls, how, served>>

scriptVars == <<spc, sdocs, sdb, serr>>

queryVars == <<pc, query, result, answer, sources, pages, fallback_needed, got, ret,
               chainCalls, directCalls, llmPrompt, llmOut>>

\* The pipeline's and the script's variables together.
ragVars == <<indexVars, scriptVars, queryVars>>

VARIABLES
    builder,         \* which builder cuts the passages: "script" or "pipeline"
    pageChunks,      \* per PDF path, per page: the number of chunks the splitter cuts
    pathIx,          \* the builder's loop over the paths: the path it is at
    pageIx,          \* the builder's loop over the pages of the path: the page it is at
    cdocs            \* the passages made so far, with their metadata

chunkVars == <<builder, pageChunks, pathIx, pageIx, cdocs>>

VARIABLES
    tin,             \* a build's inputs: passages, their vectors, docstore ids, a query vector
    fresh,           \* the index FAISS.from_texts returned
    files,           \* index.faiss and index.pkl as save_local wrote them
    reloaded,        \* the index FAISS.load_local returned
    hits             \* what the retriever found in the fresh and in the reloaded index

tripVars == <<tin, fresh, files, reloaded, hits>>

VARIABLES
    store,           \* data["assessments"] of user_data/compliance_assessments.json
    clock,           \* datetime.now(), in whole seconds
    ccOps,           \* the number of create and update calls made
    ccRet,           \* what the last ComplianceChecker call returned
    ccBefore         \* the store as it was before the last call

ccVars == <<store, clock, ccOps, ccRet, ccBefore>>

VARIABLES
    hfile,           \* the list in CHAT_HISTORY_FILE ([] when there is no file)
    hpc,             \* per caller of save_to_history: "idle", or "loaded" before it writes
    hlocal,          \* per caller: save_to_history's local `history`
    hentry,          \* per caller: save_to_history's local `entry`
    hcount,          \* the number of save_to_history calls begun
    hdone,           \* the entries of the save_to_history calls that have returned
    hout             \* what the last get_sessions or load_session call returned

histVars == <<hfile, hpc, hlocal, hentry, hcount, hdone, hout>>

VARIABLES
    show_homepage,           \* st.session_state.show_homepage
    show_settings,           \* st.session_state.show_settings
    show_compliance,         \* st.session_state.show_compliance
    mode_selector,           \* st.session_state.mode_selector, the sidebar selectbox
    compliance_view_mode,    \* st.session_state.compliance_view_mode
    previous_sidebar_mode,   \* st.session_state.previous_sidebar_mode
    last_button_click,       \* st.session_state.last_button_click
    current_assessment_id,   \* st.session_state.current_assessment_id
    assessments,             \* whether checker.list_assessments() has any element
    apc,                     \* "rerun": a run of the script is due; "shown": the run is over
    view,                    \* the function the routing called in the last run
    cview                    \* the function show_compliance_interface dispatched to

appVars == <<show_homepage, show_settings, show_compliance, mode_selector,
             compliance_view_mode, previous_sidebar_mode, last_button_click,
             current_assessment_id, assessments, apc, view, cview>>

\* What the pipeline's and the script's steps leave alone.
restVars == <<chunkVars, tripVars, ccVars, histVars, appVars>>

\* What the passage-cutting steps leave alone.
notChunkVars == <<ragVars, tripVars, ccVars, histVars, appVars>>

\* What the steps of the persistence round trip leave alone.
notTripVars == <<ragVars, chunkVars, ccVars, histVars, appVars>>

\* What the ComplianceChecker calls leave alone.
notCcVars == <<ragVars, chunkVars, tripVars, histVars, appVars>>

\* What the calls of user_memory.py leave alone.
notHistVars == <<ragVars, chunkVars, tripVars, ccVars, appVars>>

\* What the runs of the app's script leave alone.
notAppVars == <<ragVars, chunkVars, tripVars, ccVars, histVars>>

vars == <<ragVars, chunkVars, tripVars, ccVars, histVars, appVars>>

\* The callers of save_to_history: two runs of the app's script.
Callers == {"run1", "run2"}

NoEntry == [question |-> 0, session |-> ""]

\* There is no CHAT_HISTORY_FILE and nothing of user_memory.py is running.
InitHist ==
    /\ hfile = << >>
    /\ hpc = [c \in Callers |-> "idle"]
    /\ hlocal = [c \in Callers |-> << >>]
    /\ hentry = [c \in Callers |-> NoEntry]
    /\ hcount = 0
    /\ hdone = {}
    /\ hout = [op |-> "none"]

\* initialize_compliance_data: no assessment is stored, nothing has been called.
InitCc ==
    /\ store = << >>
    /\ clock = 1
    /\ ccOps = 0
    /\ ccRet = [op |-> "none"]
    /\ ccBefore = << >>

\* Nothing built, saved, loaded or searched.
Nothing == [nothing |-> TRUE]

\* No index is being built for a round trip.
InitTripIdle ==
    /\ tin = Nothing
    /\ fresh = Nothing
    /\ files = Nothing
    /\ reloaded = Nothing
    /\ hits = Nothing

\* No builder is cutting passages.
InitChunkIdle ==
    /\ builder = "script"
    /\ pageChunks = << >>
    /\ pathIx = 1
    /\ pageIx = 1
    /\ cdocs = << >>

\* Every other part of the program at rest.
\* default_state, before the first run of the script.
default_state ==
    /\ show_homepage = TRUE
    /\ show_settings = FALSE
    /\ show_compliance = FALSE
    /\ mode_selector = "Overview"
    /\ compliance_view_mode = "overview"
    /\ previous_sidebar_mode = "None"
    /\ last_button_click = "None"
    /\ current_assessment_id = "None"

\* A new browser session with no assessment on file: its first run is due.
InitAppIdle ==
    /\ default_state
    /\ assessments = FALSE
    /\ apc = "rerun"
    /\ view = "none"
    /\ cview = "none"

InitRest == InitChunkIdle /\ InitTripIdle /\ InitCc /\ InitHist /\ InitAppIdle

\* No generate_response call has been made.
InitQuery ==
    /\ pc = "idle"
    /\ query = ""
    /\ result = NoResult
    /\ answer = ""
    /\ sources = {}
    /\ pages = << >>
    /\ fallback_needed = FALSE
    /\ got = NoReturn
    /\ ret = NoResponse
    /\ chainCalls = 0
    /\ directCalls = 0
    /\ llmPrompt = ""
    /\ llmOut = ""

\* The module has been imported: it found no index, built one and saved it.
InitReady ==
    /\ corpus \in {c \in Corpora : \A fn \in FileNames : c[fn] = 1}
    /\ texts = LoadAndSplit(corpus)
    /\ vectordb = FromTexts(texts)
    /\ persisted = vectordb
    /\ ipc = "ready"
    /\ embedCalls = NumTexts(texts)
    /\ saveCalls = 1
    /\ how = "built"
    /\ served = NoIndex
    /\ key = TRUE
    /\ intact = TRUE
    /\ err = "none"

\* build_faiss_index.py is not running.
InitScript ==
    /\ spc = "down"
    /\ sdocs = NoTexts
    /\ sdb = NoIndex
    /\ serr = "none"

Init == InitReady /\ InitScript /\ InitQuery /\ InitRest

\* generate_response(query) is called and get_answer reaches result = qa_chain(query).
\* Every local starts fresh: nothing of an earlier call is read.
CallChain ==
    /\ ipc = "ready"
    /\ pc \in {"idle", "done", "error"}
    /\ \E q \in Queries : query' = q
    /\ pc' = "chain"
    /\ result' = NoResult
    /\ answer' = ""
    /\ sources' = {}
    /\ pages' = << >>
    /\ fallback_needed' = FALSE
    /\ got' = NoReturn
    /\ ret' = NoResponse
    /\ chainCalls' = 1
    /\ directCalls' = 0
    /\ llmPrompt' = ""
    /\ llmOut' = ""
    /\ UNCHANGED indexVars
    /\ UNCHANGED scriptVars
    /\ UNCHANGED restVars

\* ChainReturns letting go of the index in memory once the chain has answered.
ChainReturns_DropsIndex ==
    /\ pc = "chain"
    /\ \E ans \in Answers, ds \in DocLists :
         /\ result' = [result |-> ans, source_documents |-> ds]
         /\ answer' = ans
         /\ sources' = SourcesOf(ds)
         /\ pages' = PagesOf(ds)
         /\ fallback_needed' = FallbackNeeded(ds, ans)
    /\ IF fallback_needed'
       THEN /\ pc' = "llm"
            /\ directCalls' = directCalls + 1
            /\ llmPrompt' = query
            /\ UNCHANGED <<got, ret>>
       ELSE /\ pc' = "done"
            /\ got' = GetAnswerReturn(answer', sources', pages')
            /\ ret' = Response(got')
            /\ UNCHANGED <<directCalls, llmPrompt>>
    /\ UNCHANGED <<query, chainCalls, llmOut>>
    /\ vectordb' = NoIndex
    /\ UNCHANGED <<corpus, key, persisted, intact, ipc, err, texts, embedCalls, saveCalls,
                   how, served>>
    /\ UNCHANGED scriptVars
    /\ UNCHANGED restVars

\* qa_chain returns; the loop over docs and the fallback detection run; without
\* fallback get_answer and generate_response return, with it llm.invoke(query) is called.
ChainReturns ==
    /\ pc = "chain"
    /\ \E ans \in Answers, ds \in DocLists :
         /\ result' = [result |-> ans, source_documents |-> ds]
         /\ answer' = ans
         /\ sources' = SourcesOf(ds)
         /\ pages' = PagesOf(ds)
         /\ fallback_needed' = FallbackNeeded(ds, ans)
    /\ IF fallback_needed'
       THEN /\ pc' = "llm"
            /\ directCalls' = directCalls + 1
            /\ llmPrompt' = query
            /\ UNCHANGED <<got, ret>>
       ELSE /\ pc' = "done"
            /\ got' = GetAnswerReturn(answer', sources', pages')
            /\ ret' = Response(got')
            /\ UNCHANGED <<directCalls, llmPrompt>>
    /\ UNCHANGED <<query, chainCalls, llmOut>>
    /\ UNCHANGED indexVars
    /\ UNCHANGED scriptVars
    /\ UNCHANGED restVars

\* LlmReturns checking the fallback answer against the phrases and asking again.
LlmReturns_Recheck ==
    /\ pc = "llm"
    /\ \E out \in LlmOutputs : llmOut' = out
    /\ answer' = llmOut'
    /\ sources' = {}
    /\ pages' = << >>
    /\ IF AnyPhraseTable[llmOut']
       THEN /\ pc' = "llm"
            /\ directCalls' = directCalls + 1
            /\ UNCHANGED <<got, ret>>
       ELSE /\ pc' = "done"
            /\ got' = GetAnswerReturn(answer', sources', pages')
            /\ ret' = Response(got')
            /\ UNCHANGED directCalls
    /\ UNCHANGED <<query, result, fallback_needed, chainCalls, llmPrompt>>
    /\ UNCHANGED indexVars
    /\ UNCHANGED scriptVars
    /\ UNCHANGED restVars

\* llm.invoke(query) returns: answer = its output, sources = [], pages = [], and
\* get_answer and generate_response return.
LlmReturns ==
    /\ pc = "llm"
    /\ \E out \in LlmOutputs : llmOut' = out
    /\ answer' = llmOut'
    /\ sources' = {}
    /\ pages' = << >>
    /\ got' = GetAnswerReturn(answer', sources', pages')
    /\ ret' = Response(got')
    /\ pc' = "done"
    /\ UNCHANGED <<query, result, fallback_needed, chainCalls, directCalls, llmPrompt>>
    /\ UNCHANGED indexVars
    /\ UNCHANGED scriptVars
    /\ UNCHANGED restVars

\* ChainRaises taking the failure of the chain for a reason to fall back.
ChainRaises_FallsBack ==
    /\ pc = "chain"
    /\ fallback_needed' = TRUE
    /\ pc' = "llm"
    /\ directCalls' = directCalls + 1
    /\ llmPrompt' = query
    /\ UNCHANGED <<query, result, answer, sources, pages, got, ret, chainCalls, llmOut>>
    /\ UNCHANGED indexVars
    /\ UNCHANGED scriptVars
    /\ UNCHANGED restVars

\* qa_chain(query) raises: nothing in get_answer or generate_response catches
\* it, so the call ends with the exception and returns nothing.
ChainRaises ==
    /\ pc = "chain"
    /\ pc' = "error"
    /\ UNCHANGED <<query, result, answer, sources, pages, fallback_needed, got, ret,
                   chainCalls, directCalls, llmPrompt, llmOut>>
    /\ UNCHANGED indexVars
    /\ UNCHANGED scriptVars
    /\ UNCHANGED restVars

\* llm.invoke(query) raises: the call ends with the exception and returns nothing.
LlmRaises ==
    /\ pc = "llm"
    /\ pc' = "error"
    /\ UNCHANGED <<query, result, answer, sources, pages, fallback_needed, got, ret,
                   chainCalls, directCalls, llmPrompt, llmOut>>
    /\ UNCHANGED indexVars
    /\ UNCHANGED scriptVars
    /\ UNCHANGED restVars

Next ==
    \/ CallChain
    \/ ChainReturns
    \/ LlmReturns
    \/ ChainRaises
    \/ LlmRaises

Spec == Init /\ [][Next]_vars

(***************************************************************************)
(* Module initialisation of rag_pipeline.py, a process at a time, with the *)
(* corpus directory changing underneath it.                                *)
(***************************************************************************)
\* A file is put into DOCS_DIR.
CorpusAdd ==
    \E fn \in FileNames, v \in 1..MaxVersion :
        /\ corpus[fn] = 0
        /\ corpus' = [corpus EXCEPT ![fn] = v]
        /\ UNCHANGED <<key, persisted, intact, ipc, err, texts, vectordb, embedCalls,
                       saveCalls, how, served>>
        /\ UNCHANGED scriptVars
        /\ UNCHANGED queryVars
        /\ UNCHANGED restVars

\* A file is removed from DOCS_DIR.
CorpusRemove ==
    \E fn \in FileNames :
        /\ corpus[fn] > 0
        /\ corpus' = [corpus EXCEPT ![fn] = 0]
        /\ UNCHANGED <<key, persisted, intact, ipc, err, texts, vectordb, embedCalls,
                       saveCalls, how, served>>
        /\ UNCHANGED scriptVars
        /\ UNCHANGED queryVars
        /\ UNCHANGED restVars

\* A file of DOCS_DIR gets another content.
CorpusModify ==
    \E fn \in FileNames, v \in 1..MaxVersion :
        /\ corpus[fn] > 0
        /\ v # corpus[fn]
        /\ corpus' = [corpus EXCEPT ![fn] = v]
        /\ UNCHANGED <<key, persisted, intact, ipc, err, texts, vectordb, embedCalls,
                       saveCalls, how, served>>
        /\ UNCHANGED scriptVars
        /\ UNCHANGED queryVars
        /\ UNCHANGED restVars

\* The environment gets or loses OPENAI_API_KEY while no process runs.
EnvChange ==
    /\ ipc = "down"
    /\ spc = "down"
    /\ key' = ~key
    /\ UNCHANGED <<corpus, persisted, intact, ipc, err, texts, vectordb, embedCalls,
                   saveCalls, how, served>>
    /\ UNCHANGED scriptVars
    /\ UNCHANGED queryVars
    /\ UNCHANGED restVars

\* StartLoadDocs loading and splitting the documents before it looks for the key.
StartLoadDocs_KeyCheckedAfterLoad ==
    /\ ipc = "down"
    /\ texts' = LoadAndSplit(corpus)
    /\ IF key
       THEN /\ ipc' = "docs_loaded"
            /\ err' = "none"
       ELSE /\ ipc' = "failed"
            /\ err' = "ValueError"
    /\ vectordb' = NoIndex
    /\ embedCalls' = 0
    /\ saveCalls' = 0
    /\ how' = "none"
    /\ served' = NoIndex
    /\ UNCHANGED <<corpus, key, persisted, intact>>
    /\ UNCHANGED scriptVars
    /\ UNCHANGED queryVars
    /\ UNCHANGED restVars

\* The process starts: without OPENAI_API_KEY the import raises ValueError at
\* once; with it the PDF files of DOCS_DIR are loaded and split.
StartLoadDocs ==
    /\ ipc = "down"
    /\ IF key
       THEN /\ ipc' = "docs_loaded"
            /\ err' = "none"
            /\ texts' = LoadAndSplit(corpus)
       ELSE /\ ipc' = "failed"
            /\ err' = "ValueError"
            /\ texts' = NoTexts
    /\ vectordb' = NoIndex
    /\ embedCalls' = 0
    /\ saveCalls' = 0
    /\ how' = "none"
    /\ served' = NoIndex
    /\ UNCHANGED <<corpus, key, persisted, intact>>
    /\ UNCHANGED scriptVars
    /\ UNCHANGED queryVars
    /\ UNCHANGED restVars

\* StartIndex building whether or not FAISS_INDEX_DIR exists.
StartIndex_AlwaysBuilds ==
    /\ ipc = "docs_loaded"
    /\ IF NumTexts(texts) = 0
       THEN /\ ipc' = "failed"
            /\ err' = "IndexError"
            /\ UNCHANGED <<vectordb, embedCalls, how>>
       ELSE \/ /\ vectordb' = FromTexts(texts)
               /\ embedCalls' = NumTexts(texts)
               /\ how' = "built"
               /\ ipc' = "built"
               /\ UNCHANGED err
            \/ /\ ipc' = "failed"
               /\ err' = "EmbeddingError"
               /\ UNCHANGED <<vectordb, embedCalls, how>>
    /\ UNCHANGED <<corpus, key, persisted, intact, texts, saveCalls, served>>
    /\ UNCHANGED scriptVars
    /\ UNCHANGED queryVars
    /\ UNCHANGED restVars

\* StartIndex loading the persisted index only when it was built from the
\* documents just loaded, and rebuilding it otherwise.
StartIndex_RebuildsWhenStale ==
    /\ ipc = "docs_loaded"
    /\ IF persisted.exists /\ persisted.snap = texts
       THEN IF intact
            THEN /\ vectordb' = persisted
                 /\ how' = "loaded"
                 /\ ipc' = "ready"
                 /\ UNCHANGED <<embedCalls, err>>
            ELSE /\ ipc' = "failed"
                 /\ err' = "LoadError"
                 /\ UNCHANGED <<vectordb, embedCalls, how>>
       ELSE IF NumTexts(texts) = 0
            THEN /\ ipc' = "failed"
                 /\ err' = "IndexError"
                 /\ UNCHANGED <<vectordb, embedCalls, how>>
            ELSE \/ /\ vectordb' = FromTexts(texts)
                    /\ embedCalls' = NumTexts(texts)
                    /\ how' = "built"
                    /\ ipc' = "built"
                    /\ UNCHANGED err
                 \/ /\ ipc' = "failed"
                    /\ err' = "EmbeddingError"
                    /\ UNCHANGED <<vectordb, embedCalls, how>>
    /\ UNCHANGED <<corpus, key, persisted, intact, texts, saveCalls, served>>
    /\ UNCHANGED scriptVars
    /\ UNCHANGED queryVars
    /\ UNCHANGED restVars

\* StartIndex building a new index when the persisted one does not load.
StartIndex_RebuildsOnLoadFailure ==
    /\ ipc = "docs_loaded"
    /\ IF persisted.exists /\ intact
       THEN /\ vectordb' = persisted
            /\ how' = "loaded"
            /\ ipc' = "ready"
            /\ UNCHANGED <<embedCalls, err>>
       ELSE IF NumTexts(texts) = 0
            THEN /\ ipc' = "failed"
                 /\ err' = "IndexError"
                 /\ UNCHANGED <<vectordb, embedCalls, how>>
            ELSE \/ /\ vectordb' = FromTexts(texts)
                    /\ embedCalls' = NumTexts(texts)
                    /\ how' = "built"
                    /\ ipc' = "built"
                    /\ UNCHANGED err
                 \/ /\ ipc' = "failed"
                    /\ err' = "EmbeddingError"
                    /\ UNCHANGED <<vectordb, embedCalls, how>>
    /\ UNCHANGED <<corpus, key, persisted, intact, texts, saveCalls, served>>
    /\ UNCHANGED scriptVars
    /\ UNCHANGED queryVars
    /\ UNCHANGED restVars

\* StartIndex going on to save an index of no passages when the embedding fails.
StartIndex_EmptyIndexOnEmbeddingFailure ==
    /\ ipc = "docs_loaded"
    /\ IF persisted.exists
       THEN IF intact
            THEN /\ vectordb' = persisted
                 /\ how' = "loaded"
                 /\ ipc' = "ready"
                 /\ UNCHANGED <<embedCalls, err>>
            ELSE /\ ipc' = "failed"
                 /\ err' = "LoadError"
                 /\ UNCHANGED <<vectordb, embedCalls, how>>
       ELSE IF NumTexts(texts) = 0
            THEN /\ ipc' = "failed"
                 /\ err' = "IndexError"
                 /\ UNCHANGED <<vectordb, embedCalls, how>>
            ELSE \/ /\ vectordb' = FromTexts(texts)
                    /\ embedCalls' = NumTexts(texts)
                    /\ how' = "built"
                    /\ ipc' = "built"
                    /\ UNCHANGED err
                 \/ /\ vectordb' = FromTexts(NoTexts)
                    /\ how' = "built"
                    /\ ipc' = "built"
                    /\ err' = "EmbeddingError"
                    /\ UNCHANGED embedCalls
    /\ UNCHANGED <<corpus, key, persisted, intact, texts, saveCalls, served>>
    /\ UNCHANGED scriptVars
    /\ UNCHANGED queryVars
    /\ UNCHANGED restVars

\* if os.path.isdir(FAISS_INDEX_DIR): load_local, which raises when the files
\* of the directory are not those of one index; the retriever and the chain
\* are made after it. else: from_texts, which embeds every text and raises
\* when the embedding capability fails, and raises IndexError (embeddings[0])
\* when there is no text at all. An exception ends the import.
StartIndex ==
    /\ ipc = "docs_loaded"
    /\ IF persisted.exists
       THEN IF intact
            THEN /\ vectordb' = persisted
                 /\ how' = "loaded"
                 /\ ipc' = "ready"
                 /\ UNCHANGED <<embedCalls, err>>
            ELSE /\ ipc' = "failed"
                 /\ err' = "LoadError"
                 /\ UNCHANGED <<vectordb, embedCalls, how>>
       ELSE IF NumTexts(texts) = 0
            THEN /\ ipc' = "failed"
                 /\ err' = "IndexError"
                 /\ UNCHANGED <<vectordb, embedCalls, how>>
            ELSE \/ /\ vectordb' = FromTexts(texts)
                    /\ embedCalls' = NumTexts(texts)
                    /\ how' = "built"
                    /\ ipc' = "built"
                    /\ UNCHANGED err
                 \/ /\ ipc' = "failed"
                    /\ err' = "EmbeddingError"
                    /\ UNCHANGED <<vectordb, embedCalls, how>>
    /\ UNCHANGED <<corpus, key, persisted, intact, texts, saveCalls, served>>
    /\ UNCHANGED scriptVars
    /\ UNCHANGED queryVars
    /\ UNCHANGED restVars

\* vectordb.save_local(FAISS_INDEX_DIR) begins: it makes the directory if
\* there is none and writes index.faiss into it, over the file that is there;
\* index.pkl is not written yet.
SaveBegin ==
    /\ ipc = "built"
    /\ persisted' = vectordb
    /\ intact' = FALSE
    /\ saveCalls' = saveCalls + 1
    /\ ipc' = "saving"
    /\ UNCHANGED <<corpus, key, err, texts, vectordb, embedCalls, how, served>>
    /\ UNCHANGED scriptVars
    /\ UNCHANGED queryVars
    /\ UNCHANGED restVars

\* save_local ends: it writes index.pkl, so the two files are of one index
\* when index.faiss is still the one this process wrote; then the retriever
\* and the chain are made.
SaveEnd ==
    /\ ipc = "saving"
    /\ intact' = (persisted = vectordb)
    /\ ipc' = "ready"
    /\ UNCHANGED <<corpus, key, persisted, err, texts, vectordb, embedCalls, saveCalls,
                   how, served>>
    /\ UNCHANGED scriptVars
    /\ UNCHANGED queryVars
    /\ UNCHANGED restVars

\* The process is killed during its import; FAISS_INDEX_DIR stays as it is.
Interrupt ==
    /\ ipc \in {"docs_loaded", "built", "saving"}
    /\ ipc' = "down"
    /\ err' = "none"
    /\ texts' = NoTexts
    /\ vectordb' = NoIndex
    /\ embedCalls' = 0
    /\ saveCalls' = 0
    /\ how' = "none"
    /\ served' = NoIndex
    /\ UNCHANGED <<corpus, key, persisted, intact>>
    /\ UNCHANGED scriptVars
    /\ UNCHANGED queryVars
    /\ UNCHANGED restVars

\* The process ends; its memory is gone, FAISS_INDEX_DIR stays.
Exit ==
    /\ ipc \in {"ready", "failed"}
    /\ ipc' = "down"
    /\ err' = "none"
    /\ texts' = NoTexts
    /\ vectordb' = NoIndex
    /\ embedCalls' = 0
    /\ saveCalls' = 0
    /\ how' = "none"
    /\ served' = NoIndex
    /\ UNCHANGED <<corpus, key, persisted, intact>>
    /\ UNCHANGED scriptVars
    /\ UNCHANGED queryVars
    /\ UNCHANGED restVars

\* Retrieve answering as soon as the import has begun.
Retrieve_AnyTime ==
    /\ ipc \notin {"down", "failed"}
    /\ served' = vectordb
    /\ UNCHANGED <<corpus, key, persisted, intact, ipc, err, texts, vectordb, embedCalls,
                   saveCalls, how>>
    /\ UNCHANGED scriptVars
    /\ UNCHANGED queryVars
    /\ UNCHANGED restVars

\* A query: the chain's retriever searches vectordb. generate_response exists
\* only when the import has run to its end.
Retrieve ==
    /\ ipc = "ready"
    /\ served' = vectordb
    /\ UNCHANGED <<corpus, key, persisted, intact, ipc, err, texts, vectordb, embedCalls,
                   saveCalls, how>>
    /\ UNCHANGED scriptVars
    /\ UNCHANGED queryVars
    /\ UNCHANGED restVars

\* No process runs and FAISS_INDEX_DIR does not exist.
InitDown ==
    /\ corpus \in Corpora
    /\ key \in BOOLEAN
    /\ persisted = NoIndex
    /\ intact = FALSE
    /\ ipc = "down"
    /\ err = "none"
    /\ texts = NoTexts
    /\ vectordb = NoIndex
    /\ embedCalls = 0
    /\ saveCalls = 0
    /\ how = "none"
    /\ served = NoIndex

InitIndex == InitDown /\ InitScript /\ InitQuery /\ InitRest

NextIndex ==
    \/ CorpusAdd
    \/ CorpusRemove
    \/ CorpusModify
    \/ EnvChange
    \/ StartLoadDocs
    \/ StartIndex
    \/ SaveBegin
    \/ SaveEnd
    \/ Interrupt
    \/ Exit
    \/ Retrieve

SpecIndex == InitIndex /\ [][NextIndex]_vars

(***************************************************************************)
(* build_faiss_index.py, run as a process of its own beside a process that *)
(* imports rag_pipeline.py, over the same DOCS_DIR and FAISS_INDEX_DIR.    *)
(***************************************************************************)
\* splitter with its two arguments taken for each other.
splitter_ArgumentsSwapped == [chunk_size |-> 120, chunk_overlap |-> 800]

\* RecursiveCharacterTextSplitter(chunk_size=800, chunk_overlap=120) of build_faiss_index.py
splitter == [chunk_size |-> 800, chunk_overlap |-> 120]

\* glob(os.path.join(DOCS_DIR, "*.pdf")): the pattern matches the suffix as written.
ScriptIsPdf(fn) == Len(fn) >= 4 /\ SubSeq(fn, Len(fn) - 3, Len(fn)) = ".pdf"

ScriptIsPdfTable == [fn \in FileNames |-> ScriptIsPdf(fn)]

\* pdf_paths and the chunks of their pages, each kept as its file's content version.
ScriptLoadAndSplit(dir) == [fn \in FileNames |-> IF ScriptIsPdfTable[fn] THEN dir[fn] ELSE 0]

\* FAISS.from_documents(docs, embeddings) on the chunks splitter produced.
FromDocuments(ds) == [exists |-> TRUE, snap |-> ds, splitters |-> {splitter}]

\* The script starts: load_dotenv, then the PDF files are globbed, loaded and
\* split. Nothing looks for OPENAI_API_KEY here.
ScriptLoadDocs ==
    /\ spc = "down"
    /\ spc' = "docs_loaded"
    /\ sdocs' = ScriptLoadAndSplit(corpus)
    /\ sdb' = NoIndex
    /\ serr' = "none"
    /\ UNCHANGED indexVars
    /\ UNCHANGED queryVars
    /\ UNCHANGED restVars

\* embeddings = OpenAIEmbeddings(), which raises without OPENAI_API_KEY, then
\* db = FAISS.from_documents(docs, embeddings), which embeds every chunk and
\* raises when the embedding capability fails, and raises IndexError
\* (embeddings[0]) when there is no chunk at all. An exception ends the script.
ScriptBuild ==
    /\ spc = "docs_loaded"
    /\ IF ~key
       THEN /\ spc' = "failed"
            /\ serr' = "ValidationError"
            /\ UNCHANGED sdb
       ELSE IF NumTexts(sdocs) = 0
            THEN /\ spc' = "failed"
                 /\ serr' = "IndexError"
                 /\ UNCHANGED sdb
            ELSE \/ /\ sdb' = FromDocuments(sdocs)
                    /\ spc' = "built"
                    /\ UNCHANGED serr
                 \/ /\ spc' = "failed"
                    /\ serr' = "EmbeddingError"
                    /\ UNCHANGED sdb
    /\ UNCHANGED sdocs
    /\ UNCHANGED indexVars
    /\ UNCHANGED queryVars
    /\ UNCHANGED restVars

\* db.save_local(FAISS_INDEX_DIR) begins: it makes the directory if there is
\* none and writes index.faiss into it, over the file that is there.
ScriptSaveBegin ==
    /\ spc = "built"
    /\ persisted' = sdb
    /\ intact' = FALSE
    /\ spc' = "saving"
    /\ UNCHANGED <<corpus, key, ipc, err, texts, vectordb, embedCalls, saveCalls, how, served>>
    /\ UNCHANGED <<sdocs, sdb, serr>>
    /\ UNCHANGED queryVars
    /\ UNCHANGED restVars

\* save_local ends: it writes index.pkl; then the script prints and is done.
ScriptSaveEnd ==
    /\ spc = "saving"
    /\ intact' = (persisted = sdb)
    /\ spc' = "done"
    /\ UNCHANGED <<corpus, key, persisted, ipc, err, texts, vectordb, embedCalls, saveCalls,
                   how, served>>
    /\ UNCHANGED <<sdocs, sdb, serr>>
    /\ UNCHANGED queryVars
    /\ UNCHANGED restVars

\* The script's process ends; FAISS_INDEX_DIR stays.
ScriptExit ==
    /\ spc \in {"done", "failed"}
    /\ spc' = "down"
    /\ sdocs' = NoTexts
    /\ sdb' = NoIndex
    /\ serr' = "none"
    /\ UNCHANGED indexVars
    /\ UNCHANGED queryVars
    /\ UNCHANGED restVars

InitBuild == InitDown /\ InitScript /\ InitQuery /\ InitRest

NextBuild ==
    \/ StartLoadDocs
    \/ StartIndex
    \/ SaveBegin
    \/ SaveEnd
    \/ Interrupt
    \/ Exit
    \/ Retrieve
    \/ ScriptLoadDocs
    \/ ScriptBuild
    \/ ScriptSaveBegin
    \/ ScriptSaveEnd
    \/ ScriptExit

SpecBuild == InitBuild /\ [][NextBuild]_vars

(***************************************************************************)
(* The passages the two builders make of the PDF files, page by page, and  *)
(* the metadata they give them.                                            *)
(***************************************************************************)
\* The most pages a PDF file has in the model.
MaxPages == 2

\* The most chunks the splitter cuts of one page in the model.
MaxChunks == 2

\* pdf_paths: the sorted paths of the PDF files of DOCS_DIR.
pdf_paths == <<"docs/a.pdf", "docs/b.pdf">>

\* The pages of one file: for each page, the number of chunks its text is cut into.
PageChunkCounts == UNION {[1..n -> 0..MaxChunks] : n \in 1..MaxPages}

\* A passage's metadata, as far as the identity of the passage goes.
Passage(src, pg, ci) == [source |-> src, page |-> pg, chunk_index |-> ci]

\* for i, chunk in enumerate(splitter.split_text(d.page_content)): the
\* passages of one page, numbered from 0 on every page.
ScriptPagePassages(src, pg, n) == [i \in 1..n |-> Passage(src, pg, Some(i - 1))]

\* text_splitter.split_documents(docs): the passages of one page carry the
\* page's own metadata (source, page) and nothing else.
PipelinePagePassages(src, pg, n) == [i \in 1..n |-> Passage(src, pg, None)]

\* The builder has cut every page of every path.
CutDone == pathIx > Len(pdf_paths)

\* One round of the script's loop over the pages of a path: the chunks of
\* the page are appended to docs, then the loop goes on to the next page or,
\* after the last page, to the next path.
ScriptCutPage ==
    /\ builder = "script"
    /\ ~CutDone
    /\ cdocs' = cdocs \o ScriptPagePassages(pdf_paths[pathIx], pageIx - 1,
                                            pageChunks[pathIx][pageIx])
    /\ IF pageIx < Len(pageChunks[pathIx])
       THEN /\ pageIx' = pageIx + 1
            /\ UNCHANGED pathIx
       ELSE /\ pageIx' = 1
            /\ pathIx' = pathIx + 1
    /\ UNCHANGED <<builder, pageChunks>>
    /\ UNCHANGED notChunkVars

\* The pipeline's loading and splitting, a page at a time.
PipelineCutPage ==
    /\ builder = "pipeline"
    /\ ~CutDone
    /\ cdocs' = cdocs \o PipelinePagePassages(pdf_paths[pathIx], pageIx - 1,
                                              pageChunks[pathIx][pageIx])
    /\ IF pageIx < Len(pageChunks[pathIx])
       THEN /\ pageIx' = pageIx + 1
            /\ UNCHANGED pathIx
       ELSE /\ pageIx' = 1
            /\ pathIx' = pathIx + 1
    /\ UNCHANGED <<builder, pageChunks>>
    /\ UNCHANGED notChunkVars

\* A builder starts on PDF files of one or more pages.
InitChunk ==
    /\ builder \in {"script", "pipeline"}
    /\ pageChunks \in [1..Len(pdf_paths) -> PageChunkCounts]
    /\ pathIx = 1
    /\ pageIx = 1
    /\ cdocs = << >>

InitCut == InitReady /\ InitScript /\ InitQuery /\ InitChunk /\ InitTripIdle /\ InitCc /\ InitHist /\ InitAppIdle

NextCut ==
    \/ ScriptCutPage
    \/ PipelineCutPage

SpecCut == InitCut /\ [][NextCut]_vars

(***************************************************************************)
(* An index built, saved, loaded again and searched: what save_local puts  *)
(* into FAISS_INDEX_DIR and what load_local makes of it.                   *)
(***************************************************************************)
\* The most passages an index holds in the model.
MaxPassages == 3

\* The largest coordinate of a vector in the model (vectors have one coordinate).
MaxCoord == 2

\* search_kwargs={"k": 5}, smaller in the model so that it cuts the ranking.
RetrieverK == 2

\* The passages the builder embeds, in the order it made them.
TripPassages ==
    <<Passage("docs/a.pdf", 0, Some(0)), Passage("docs/a.pdf", 0, Some(1)),
      Passage("docs/b.pdf", 0, Some(0)), Passage("docs/b.pdf", 1, Some(1))>>

\* The ways to give n passages the docstore ids 1..n.
IdAssignments(n) == {f \in [1..n -> 1..n] : \A i, j \in 1..n : f[i] = f[j] => i = j}

\* The inputs of a build: n passages, the vector the embedding function
\* gives each, the docstore id each gets, and the vector of a query.
TripInputs ==
    UNION {[docs : {SubSeq(TripPassages, 1, n)},
            vecs : [1..n -> 0..MaxCoord],
            ids  : IdAssignments(n),
            q    : 0..MaxCoord] : n \in 1..MaxPassages}

\* FAISS.from_texts(texts, embedding, metadatas): the vectors in the order of
\* the texts, the docstore from id to passage, and the id of every position.
FromTextsIndex(in) ==
    [index |-> in.vecs,
     docstore |-> [d \in 1..Len(in.docs) |->
                     in.docs[CHOOSE i \in 1..Len(in.docs) : in.ids[i] = d]],
     index_to_docstore_id |-> in.ids]

\* save_local: index.faiss is the vector index, index.pkl the docstore and
\* the ids of the positions.
SaveLocal(ix) ==
    [faiss |-> ix.index,
     pkl |-> [docstore |-> ix.docstore, index_to_docstore_id |-> ix.index_to_docstore_id]]

\* LoadLocal numbering the positions in the order of the docstore.
LoadLocal_DocstoreOrder(fs) ==
    [index |-> fs.faiss,
     docstore |-> fs.pkl.docstore,
     index_to_docstore_id |-> [i \in 1..Len(fs.faiss) |-> i]]

\* load_local: the index of index.faiss with the docstore and the ids of index.pkl.
LoadLocal(fs) ==
    [index |-> fs.faiss,
     docstore |-> fs.pkl.docstore,
     index_to_docstore_id |-> fs.pkl.index_to_docstore_id]

\* The distance of the vector at a position from the query vector.
Dist(ix, q, i) == IF ix.index[i] >= q THEN ix.index[i] - q ELSE q - ix.index[i]

\* The position that comes r-th when the positions are ordered by distance,
\* and by position where distances are equal.
RankedPosition(ix, q, r) ==
    CHOOSE i \in 1..Len(ix.index) :
        Cardinality({j \in 1..Len(ix.index) :
                        \/ Dist(ix, q, j) < Dist(ix, q, i)
                        \/ (Dist(ix, q, j) = Dist(ix, q, i) /\ j < i)}) = r - 1

\* retriever.get_relevant_documents(query): the k nearest positions, each
\* turned into its passage through its docstore id; of a passage, its identity.
Search(ix, q) ==
    [r \in 1..(IF Len(ix.index) < RetrieverK THEN Len(ix.index) ELSE RetrieverK) |->
        LET doc == ix.docstore[ix.index_to_docstore_id[RankedPosition(ix, q, r)]]
        IN  <<doc.source, doc.page, doc.chunk_index>>]

\* vectordb = FAISS.from_texts(...)
TripBuild ==
    /\ tin # Nothing
    /\ fresh = Nothing
    /\ fresh' = FromTextsIndex(tin)
    /\ UNCHANGED <<tin, files, reloaded, hits>>
    /\ UNCHANGED notTripVars

\* vectordb.save_local(FAISS_INDEX_DIR), run to its end.
TripSave ==
    /\ fresh # Nothing
    /\ files = Nothing
    /\ files' = SaveLocal(fresh)
    /\ UNCHANGED <<tin, fresh, reloaded, hits>>
    /\ UNCHANGED notTripVars

\* vectordb = FAISS.load_local(FAISS_INDEX_DIR, ...) in a later start.
TripLoad ==
    /\ files # Nothing
    /\ reloaded = Nothing
    /\ reloaded' = LoadLocal(files)
    /\ UNCHANGED <<tin, fresh, files, hits>>
    /\ UNCHANGED notTripVars

\* The same query is put to the retriever of the fresh and of the reloaded index.
TripSearch ==
    /\ reloaded # Nothing
    /\ hits = Nothing
    /\ hits' = [fresh |-> Search(fresh, tin.q), reloaded |-> Search(reloaded, tin.q)]
    /\ UNCHANGED <<tin, fresh, files, reloaded>>
    /\ UNCHANGED notTripVars

InitTrip ==
    /\ InitReady /\ InitScript /\ InitQuery /\ InitChunkIdle /\ InitCc /\ InitHist
    /\ InitAppIdle
    /\ tin \in TripInputs
    /\ fresh = Nothing
    /\ files = Nothing
    /\ reloaded = Nothing
    /\ hits = Nothing

NextTrip ==
    \/ TripBuild
    \/ TripSave
    \/ TripLoad
    \/ TripSearch

SpecTrip == InitTrip /\ [][NextTrip]_vars

(***************************************************************************)
(* compliance_checker.py: the stored assessments and the calls on them.    *)
(***************************************************************************)
\* The last second of the clock in the model.
MaxClock == 2

\* The most create_assessment and update_requirement_status calls in a behaviour.
MaxOps == 3

\* The requirements of a template category (5 in get_default_templates).
ReqsPerCategory == 2

\* The industry argument: a template key and one that is no key.
Industries == {"construction", "retail"}

BusinessNames == {"Acme", "Bolt"}

\* get_default_templates().get(industry, get_default_templates()["general"]):
\* the number of categories of the template taken.
TemplateCategories(industry) == IF industry = "construction" THEN 3 ELSE 2

\* The category_index, req_index, status and priority arguments of
\* update_requirement_status: positions of the lists, positions past their
\* end, and negative ones within and beyond their length.
UpdateArgs ==
    {<<0, 0, "compliant", "high">>,
     <<0, 1, "non_compliant", "critical">>,
     <<1, 0, "non_compliant", "high">>,
     <<1, ReqsPerCategory - 1, "partially_compliant", "low">>,
     <<2, 0, "non_compliant", "urgent">>,
     <<-1, -1, "compliant", "high">>,
     <<-3, 0, "non_compliant", "critical">>,
     <<-4, 0, "compliant", "high">>,
     <<0, -(ReqsPerCategory + 1), "compliant", "high">>,
     <<3, 0, "compliant", "high">>,
     <<0, ReqsPerCategory, "compliant", "high">>}

\* (category_compliant / category["total_reqs"]) * 100, kept to the whole percent.
Percent(c, t) == (c * 100) \div t

\* The requirement dict create_assessment makes of a template requirement.
NewRequirement(c, r) ==
    [text |-> <<c, r>>, status |-> "not_assessed", priority |-> "medium"]

\* The category dict create_assessment makes of a template category.
NewCategory(c) ==
    [name |-> c,
     requirements |-> [r \in 1..ReqsPerCategory |-> NewRequirement(c, r)],
     score |-> 0,
     total_reqs |-> ReqsPerCategory,
     compliant_reqs |-> 0]

\* assessment["total_requirements"] += category["total_reqs"], over the categories.
RECURSIVE SumTotalReqs(_)
SumTotalReqs(cats) ==
    IF cats = << >> THEN 0 ELSE cats[1].total_reqs + SumTotalReqs(Tail(cats))

\* The assessment dict of create_assessment; its id is the clock's second.
NewAssessment(now, name, industry) ==
    LET cats == [c \in 1..TemplateCategories(industry) |-> NewCategory(c)]
    IN  [id |-> now,
         business_name |-> name,
         industry |-> industry,
         categories |-> cats,
         overall_score |-> 0,
         total_requirements |-> SumTotalReqs(cats),
         compliant_requirements |-> 0]

\* The position in data["assessments"] of the first assessment of this id, 0 if none.
FindAssessment(st, id) ==
    IF \E k \in 1..Len(st) : st[k].id = id
    THEN CHOOSE k \in 1..Len(st) : st[k].id = id /\ \A j \in 1..(k - 1) : st[j].id # id
    ELSE 0

\* save_assessment: the assessment takes the place of the stored one of the
\* same id, or is appended.
save_assessment(st, a) ==
    LET k == FindAssessment(st, a.id)
    IN  IF k # 0 THEN [st EXCEPT ![k] = a] ELSE Append(st, a)

\* create_assessment(business_name, industry, assessor): the store it leaves.
create_assessment(st, now, name, industry) ==
    save_assessment(st, NewAssessment(now, name, industry))

\* category_compliant of calculate_scores.
RECURSIVE CountCompliant(_)
CountCompliant(reqs) ==
    IF reqs = << >> THEN 0
    ELSE (IF reqs[1].status = "compliant" THEN 1 ELSE 0) + CountCompliant(Tail(reqs))

\* total_compliant of calculate_scores.
RECURSIVE TotalCompliant(_)
TotalCompliant(cats) ==
    IF cats = << >> THEN 0
    ELSE CountCompliant(cats[1].requirements) + TotalCompliant(Tail(cats))

\* calculate_scores leaving the assessment's own count as it was.
calculate_scores_CategoriesOnly(a) ==
    [a EXCEPT
       !.categories =
           [c \in 1..Len(a.categories) |->
              LET cat == a.categories[c]
                  n == CountCompliant(cat.requirements)
              IN  [cat EXCEPT !.compliant_reqs = n,
                              !.score = IF cat.total_reqs > 0
                                        THEN Percent(n, cat.total_reqs) ELSE @]]]

\* calculate_scores(assessment)
calculate_scores(a) ==
    [a EXCEPT
       !.categories =
           [c \in 1..Len(a.categories) |->
              LET cat == a.categories[c]
                  n == CountCompliant(cat.requirements)
              IN  [cat EXCEPT !.compliant_reqs = n,
                              !.score = IF cat.total_reqs > 0
                                        THEN Percent(n, cat.total_reqs) ELSE @]],
       !.compliant_requirements = TotalCompliant(a.categories),
       !.overall_score = IF a.total_requirements > 0
                         THEN Percent(TotalCompliant(a.categories), a.total_requirements)
                         ELSE @]

\* Python's list[i]: the indexes a list of this length takes, and the
\* position (from 1) index i stands for, counted from the end when negative.
PyIndexOk(len, i) == -len <= i /\ i < len

PyPos(len, i) == IF i >= 0 THEN i + 1 ELSE len + i + 1

\* update_requirement_status: what it returns ("True", "False", or the
\* IndexError it raises) and the store it leaves.
update_requirement_status(st, id, ci, ri, status, priority) ==
    LET k == FindAssessment(st, id)
    IN  IF k = 0 THEN [value |-> "False", store |-> st]
        ELSE
        LET a == st[k]
            ncat == Len(a.categories)
        IN  IF ~(ci < ncat) THEN [value |-> "False", store |-> st]
            ELSE IF ~PyIndexOk(ncat, ci) THEN [value |-> "IndexError", store |-> st]
            ELSE
            LET c == PyPos(ncat, ci)
                nreq == Len(a.categories[c].requirements)
            IN  IF ~(ri < nreq) THEN [value |-> "False", store |-> st]
                ELSE IF ~PyIndexOk(nreq, ri) THEN [value |-> "IndexError", store |-> st]
                ELSE
                LET r == PyPos(nreq, ri)
                    b == [a EXCEPT !.categories[c].requirements[r].status = status,
                                   !.categories[c].requirements[r].priority = priority]
                IN  [value |-> "True", store |-> save_assessment(st, calculate_scores(b))]

\* gap_item of generate_gap_analysis
GapItem(cat, req) ==
    [category |-> cat.name, requirement |-> req.text,
     current_status |-> req.status, priority |-> req.priority]

\* The requirements of an assessment in the order of the two loops, each with its category.
RECURSIVE FlatReqs(_)
FlatReqs(cats) ==
    IF cats = << >> THEN << >>
    ELSE [r \in 1..Len(cats[1].requirements) |->
             GapItem(cats[1], cats[1].requirements[r]) @@ [status |-> cats[1].requirements[r].status]]
         \o FlatReqs(Tail(cats))

\* The gap list a non-compliant requirement of this priority is appended to.
GapList(priority) ==
    IF priority = "critical" THEN "critical_gaps"
    ELSE IF priority = "high" THEN "high_priority_gaps"
    ELSE IF priority = "medium" THEN "medium_priority_gaps"
    ELSE "low_priority_gaps"

\* The gap items appended to one list, in the order of the loops.
RECURSIVE GapsOf(_, _)
GapsOf(flat, list) ==
    IF flat = << >> THEN << >>
    ELSE (IF flat[1].status # "compliant" /\ GapList(flat[1].priority) = list
          THEN <<[category |-> flat[1].category, requirement |-> flat[1].requirement,
                  current_status |-> flat[1].current_status, priority |-> flat[1].priority]>>
          ELSE << >>)
         \o GapsOf(Tail(flat), list)

\* One entry of the action plan.
PlanEntry(gap, label) ==
    [action |-> <<gap.requirement, gap.category>>, priority |-> label]

\* generate_action_plan making entries for the low priority gaps as well.
generate_action_plan_WithLow(gaps) ==
    [i \in 1..Len(gaps.critical_gaps) |-> PlanEntry(gaps.critical_gaps[i], "Critical")]
    \o [i \in 1..Len(gaps.high_priority_gaps) |-> PlanEntry(gaps.high_priority_gaps[i], "High")]
    \o [i \in 1..Len(gaps.medium_priority_gaps) |-> PlanEntry(gaps.medium_priority_gaps[i], "Medium")]
    \o [i \in 1..Len(gaps.low_priority_gaps) |-> PlanEntry(gaps.low_priority_gaps[i], "Low")]

\* generate_action_plan(gaps)
generate_action_plan(gaps) ==
    [i \in 1..Len(gaps.critical_gaps) |-> PlanEntry(gaps.critical_gaps[i], "Critical")]
    \o [i \in 1..Len(gaps.high_priority_gaps) |-> PlanEntry(gaps.high_priority_gaps[i], "High")]
    \o [i \in 1..Len(gaps.medium_priority_gaps) |-> PlanEntry(gaps.medium_priority_gaps[i], "Medium")]

\* generate_gap_analysis(assessment_id): {} for an unknown id.
generate_gap_analysis(st, id) ==
    LET k == FindAssessment(st, id)
    IN  IF k = 0 THEN [empty |-> TRUE]
        ELSE
        LET flat == FlatReqs(st[k].categories)
            gaps == [critical_gaps |-> GapsOf(flat, "critical_gaps"),
                     high_priority_gaps |-> GapsOf(flat, "high_priority_gaps"),
                     medium_priority_gaps |-> GapsOf(flat, "medium_priority_gaps"),
                     low_priority_gaps |-> GapsOf(flat, "low_priority_gaps")]
        IN  gaps @@ [empty |-> FALSE,
                     assessment_id |-> id,
                     overall_compliance |-> st[k].overall_score,
                     action_plan |-> generate_action_plan(gaps)]

\* A second passes.
Tick ==
    /\ clock < MaxClock
    /\ clock' = clock + 1
    /\ UNCHANGED <<store, ccOps, ccRet, ccBefore>>
    /\ UNCHANGED notCcVars

\* checker.create_assessment(business_name, industry, assessor)
CreateAssessment ==
    /\ ccOps < MaxOps
    /\ \E name \in BusinessNames, industry \in Industries :
         /\ store' = create_assessment(store, clock, name, industry)
         /\ ccRet' = [op |-> "create", value |-> clock, business_name |-> name,
                      industry |-> industry]
    /\ ccBefore' = store
    /\ ccOps' = ccOps + 1
    /\ UNCHANGED clock
    /\ UNCHANGED notCcVars

\* checker.update_requirement_status(assessment_id, category_index, req_index, ...)
UpdateRequirementStatus ==
    /\ ccOps < MaxOps
    /\ \E id \in 1..MaxClock, v \in UpdateArgs :
         LET out == update_requirement_status(store, id, v[1], v[2], v[3], v[4])
         IN  /\ store' = out.store
             /\ ccRet' = [op |-> "update", value |-> out.value, id |-> id,
                          category_index |-> v[1], req_index |-> v[2],
                          status |-> v[3], priority |-> v[4]]
    /\ ccBefore' = store
    /\ ccOps' = ccOps + 1
    /\ UNCHANGED clock
    /\ UNCHANGED notCcVars

\* checker.generate_gap_analysis(assessment_id)
GapAnalysis ==
    /\ ccRet.op # "gaps"
    /\ \E id \in 1..MaxClock :
         ccRet' = [op |-> "gaps", id |-> id, value |-> generate_gap_analysis(store, id)]
    /\ ccBefore' = store
    /\ UNCHANGED <<store, clock, ccOps>>
    /\ UNCHANGED notCcVars

InitCompliance ==
    /\ InitReady /\ InitScript /\ InitQuery /\ InitChunkIdle /\ InitTripIdle
    /\ InitCc /\ InitHist /\ InitAppIdle

NextCompliance ==
    \/ Tick
    \/ CreateAssessment
    \/ UpdateRequirementStatus
    \/ GapAnalysis

SpecCompliance == InitCompliance /\ [][NextCompliance]_vars

(***************************************************************************)
(* user_memory.py: the chat history file and the calls on it.              *)
(***************************************************************************)
\* The most save_to_history calls in a behaviour.
MaxSaves == 3

\* The session_name argument.
SessionNames == {"default", "B", "a"}

\* load_chat_history(): the list of the file, [] when there is no file.
load_chat_history == hfile

\* [entry for entry in load_chat_history() if entry.get("session", "default") == session_name]
RECURSIVE load_session(_, _)
load_session(h, name) ==
    IF h = << >> THEN << >>
    ELSE (IF h[1].session = name THEN <<h[1]>> ELSE << >>) \o load_session(Tail(h), name)

\* sorted(set(entry.get("session", "default") for entry in history))
get_sessions(h) == PySorted({h[i].session : i \in 1..Len(h)})

\* save_to_history, first half: history = load_chat_history(), and the entry is made.
SaveRead ==
    /\ hcount < MaxSaves
    /\ \E c \in Callers, name \in SessionNames :
         /\ hpc[c] = "idle"
         /\ hpc' = [hpc EXCEPT ![c] = "loaded"]
         /\ hlocal' = [hlocal EXCEPT ![c] = load_chat_history]
         /\ hentry' = [hentry EXCEPT ![c] = [question |-> hcount + 1, session |-> name]]
    /\ hcount' = hcount + 1
    /\ UNCHANGED <<hfile, hdone, hout>>
    /\ UNCHANGED notHistVars

\* save_to_history begun while no other call of it is under way.
SaveReadAlone ==
    /\ \A c \in Callers : hpc[c] = "idle"
    /\ SaveRead

\* SaveWrite putting the entry in front of the history.
SaveWrite_Prepends ==
    /\ \E c \in Callers :
         /\ hpc[c] = "loaded"
         /\ hfile' = <<hentry[c]>> \o hlocal[c]
         /\ hdone' = hdone \cup {hentry[c]}
         /\ hpc' = [hpc EXCEPT ![c] = "idle"]
         /\ hlocal' = [hlocal EXCEPT ![c] = << >>]
         /\ hentry' = [hentry EXCEPT ![c] = NoEntry]
    /\ UNCHANGED <<hcount, hout>>
    /\ UNCHANGED notHistVars

\* save_to_history, second half: history.append(entry), and the file is
\* written anew with the whole list.
SaveWrite ==
    /\ \E c \in Callers :
         /\ hpc[c] = "loaded"
         /\ hfile' = Append(hlocal[c], hentry[c])
         /\ hdone' = hdone \cup {hentry[c]}
         /\ hpc' = [hpc EXCEPT ![c] = "idle"]
         /\ hlocal' = [hlocal EXCEPT ![c] = << >>]
         /\ hentry' = [hentry EXCEPT ![c] = NoEntry]
    /\ UNCHANGED <<hcount, hout>>
    /\ UNCHANGED notHistVars

\* load_session(session_name)
LoadSession ==
    /\ \E name \in SessionNames :
         hout' = [op |-> "load_session", session |-> name,
                  value |-> load_session(load_chat_history, name)]
    /\ hout' # hout
    /\ UNCHANGED <<hfile, hpc, hlocal, hentry, hcount, hdone>>
    /\ UNCHANGED notHistVars

\* get_sessions()
GetSessions ==
    /\ hout' = [op |-> "get_sessions", value |-> get_sessions(load_chat_history)]
    /\ hout' # hout
    /\ UNCHANGED <<hfile, hpc, hlocal, hentry, hcount, hdone>>
    /\ UNCHANGED notHistVars

InitHistory ==
    /\ InitReady /\ InitScript /\ InitQuery /\ InitChunkIdle /\ InitTripIdle /\ InitCc
    /\ InitHist /\ InitAppIdle

\* Sequential use: one save_to_history call at a time.
NextHistory ==
    \/ SaveReadAlone
    \/ SaveWrite
    \/ LoadSession
    \/ GetSessions

SpecHistory == InitHistory /\ [][NextHistory]_vars

\* Two runs of the app's script that call save_to_history as they come.
NextHistoryConcurrent ==
    \/ SaveRead
    \/ SaveWrite
    \/ LoadSession
    \/ GetSessions

SpecHistoryConcurrent == InitHistory /\ [][NextHistoryConcurrent]_vars

(***************************************************************************)
(* app.py: the session state, the routing and the navigation buttons.      *)
(* A run of the script is one step; a click is the run in which the        *)
(* button returns True, up to its st.rerun().                              *)
(***************************************************************************)
\* The options of the sidebar selectbox.
SidebarModes == {"Overview", "New Assessment", "View Assessments", "Gap Analysis"}

\* mode_mapping.get(mode, "overview")
mode_mapping(mode) ==
    CASE mode = "Overview" -> "overview"
      [] mode = "New Assessment" -> "new_assessment"
      [] mode = "View Assessments" -> "view_assessments"
      [] mode = "Gap Analysis" -> "gap_analysis"
      [] OTHER -> "overview"

\* Synchronization that leaves the mode a button wrote.
Synchronized_KeepsButtonMode(mode) == compliance_view_mode

\* The view mode after "if compliance_view_mode != selected_mode: ...".
Synchronized(mode) ==
    IF compliance_view_mode # mode_mapping(mode) THEN mode_mapping(mode)
    ELSE compliance_view_mode

\* previous_sidebar_mode after the same statement.
SynchronizedPrevious(mode) ==
    IF compliance_view_mode # mode_mapping(mode) THEN mode
    ELSE previous_sidebar_mode

\* The routing at the end of the script.
Routed ==
    IF show_homepage THEN "homepage"
    ELSE IF show_settings THEN "settings"
    ELSE IF show_compliance THEN "compliance"
    ELSE "chat"

\* show_gap_analysis sets the mode and reruns when no assessment is chosen.
GapAnalysisReruns(mode) ==
    Synchronized(mode) = "gap_analysis" /\ current_assessment_id = "None"

\* show_compliance_interface with the selectbox at `mode`: synchronization
\* and dispatch, and show_gap_analysis's early rerun.
ComplianceRun(mode) ==
    /\ mode_selector' = mode
    /\ previous_sidebar_mode' = SynchronizedPrevious(mode)
    /\ cview' = Synchronized(mode)
    /\ IF GapAnalysisReruns(mode)
       THEN compliance_view_mode' = "view_assessments" /\ apc' = "rerun"
       ELSE compliance_view_mode' = Synchronized(mode) /\ apc' = "shown"

\* A run of the script with no widget changed: default_state fills in the
\* missing keys, the routing calls one view.  The selectbox's key is widget
\* state: after a run that did not draw the selectbox the framework may have
\* dropped it, and default_state puts "Overview" back.
Run ==
    /\ apc = "rerun"
    /\ view' = Routed
    /\ IF Routed = "compliance"
       THEN \E mode \in (IF view = "compliance" THEN {mode_selector}
                          ELSE {mode_selector, "Overview"}) :
               ComplianceRun(mode)
       ELSE /\ apc' = "shown"
            /\ cview' = "none"
            /\ UNCHANGED <<mode_selector, compliance_view_mode, previous_sidebar_mode>>
    /\ UNCHANGED <<show_homepage, show_settings, show_compliance, last_button_click,
                   current_assessment_id, assessments>>
    /\ UNCHANGED notAppVars

\* What a click in one of the four views leaves alone besides the flags.
ClickFrame ==
    /\ apc' = "rerun"
    /\ UNCHANGED <<mode_selector, compliance_view_mode, previous_sidebar_mode,
                   current_assessment_id, assessments, view, cview>>
    /\ UNCHANGED notAppVars

\* show_homepage: "Start Chat"
StartChat ==
    /\ apc = "shown" /\ view = "homepage"
    /\ show_homepage' = FALSE
    /\ last_button_click' = "chat"
    /\ UNCHANGED <<show_settings, show_compliance>>
    /\ ClickFrame

\* show_settings_page: "Save & Return to Chat"
SettingsToChat ==
    /\ apc = "shown" /\ view = "settings"
    /\ show_settings' = FALSE
    /\ last_button_click' = "chat"
    /\ UNCHANGED <<show_homepage, show_compliance>>
    /\ ClickFrame

\* show_settings_page: "Return to Homepage"
SettingsToHomepage ==
    /\ apc = "shown" /\ view = "settings"
    /\ show_settings' = FALSE
    /\ show_homepage' = TRUE
    /\ last_button_click' = "homepage"
    /\ UNCHANGED show_compliance
    /\ ClickFrame

\* "Compliance Checker" of the settings page that leaves show_settings set.
SettingsToCompliance_KeepsSettings ==
    /\ apc = "shown" /\ view = "settings"
    /\ show_compliance' = TRUE
    /\ last_button_click' = "compliance"
    /\ UNCHANGED <<show_homepage, show_settings>>
    /\ ClickFrame

\* show_settings_page: "Compliance Checker"
SettingsToCompliance ==
    /\ apc = "shown" /\ view = "settings"
    /\ show_settings' = FALSE
    /\ show_compliance' = TRUE
    /\ last_button_click' = "compliance"
    /\ UNCHANGED show_homepage
    /\ ClickFrame

\* run_chat_interface: "Return to Homepage"
ChatToHomepage ==
    /\ apc = "shown" /\ view = "chat"
    /\ show_homepage' = TRUE
    /\ last_button_click' = "homepage"
    /\ UNCHANGED <<show_settings, show_compliance>>
    /\ ClickFrame

\* run_chat_interface: "Open Settings Page"
ChatToSettings ==
    /\ apc = "shown" /\ view = "chat"
    /\ show_settings' = TRUE
    /\ last_button_click' = "settings"
    /\ UNCHANGED <<show_homepage, show_compliance>>
    /\ ClickFrame

\* run_chat_interface: "Compliance Checker"
ChatToCompliance ==
    /\ apc = "shown" /\ view = "chat"
    /\ show_compliance' = TRUE
    /\ last_button_click' = "compliance"
    /\ UNCHANGED <<show_homepage, show_settings>>
    /\ ClickFrame

\* show_compliance_interface, sidebar: "Return to Homepage"
ComplianceToHomepage ==
    /\ apc = "shown" /\ view = "compliance"
    /\ show_compliance' = FALSE
    /\ show_homepage' = TRUE
    /\ last_button_click' = "homepage"
    /\ UNCHANGED show_settings
    /\ ClickFrame

\* show_compliance_interface, sidebar: "Back to Chat"
ComplianceToChat ==
    /\ apc = "shown" /\ view = "compliance"
    /\ show_compliance' = FALSE
    /\ last_button_click' = "chat"
    /\ UNCHANGED <<show_homepage, show_settings>>
    /\ ClickFrame

\* The user picks another option of the sidebar selectbox: the run with it.
SelectMode ==
    /\ apc = "shown" /\ view = "compliance"
    /\ \E mode \in SidebarModes \ {mode_selector} : ComplianceRun(mode)
    /\ UNCHANGED <<show_homepage, show_settings, show_compliance, last_button_click,
                   current_assessment_id, assessments, view>>
    /\ UNCHANGED notAppVars

\* A button of a compliance view that writes compliance_view_mode and reruns.
ModeButton(mode, sidebar, click, id, listed) ==
    /\ compliance_view_mode' = mode
    /\ previous_sidebar_mode' = sidebar
    /\ last_button_click' = click
    /\ current_assessment_id' = id
    /\ assessments' = listed
    /\ apc' = "rerun"
    /\ UNCHANGED <<show_homepage, show_settings, show_compliance, mode_selector, view, cview>>
    /\ UNCHANGED notAppVars

\* The last run drew this compliance view to its end.
Drawn(on) == apc = "shown" /\ view = "compliance" /\ cview = on

\* show_compliance_overview: "Start New Assessment"
StartNewAssessment ==
    /\ Drawn("overview")
    /\ ModeButton("new_assessment", "New Assessment", "new_assessment",
                  current_assessment_id, assessments)

\* show_compliance_overview: "View All Assessments"
ViewAllAssessments ==
    /\ Drawn("overview")
    /\ ModeButton("view_assessments", "View Assessments", "view_assessments",
                  current_assessment_id, assessments)

\* show_compliance_overview: "View Details" of a recent assessment
OverviewViewDetails ==
    /\ Drawn("overview")
    /\ assessments
    /\ ModeButton("gap_analysis", "Gap Analysis", "gap_analysis", "assessment", assessments)

\* show_new_assessment_form: "Create Assessment" with both names filled in
CreateAssessmentForm ==
    /\ Drawn("new_assessment")
    /\ ModeButton("gap_analysis", "Gap Analysis", "gap_analysis", "assessment", TRUE)

\* show_new_assessment_form: "Cancel"
CancelNewAssessment ==
    /\ Drawn("new_assessment")
    /\ ModeButton("overview", "Overview", "overview", current_assessment_id, assessments)

\* show_assessments_list: "View Details"
ListViewDetails ==
    /\ Drawn("view_assessments")
    /\ assessments
    /\ ModeButton("gap_analysis", "Gap Analysis", "gap_analysis", "assessment", assessments)

\* show_gap_analysis: "Back to Overview"
BackToOverview ==
    /\ Drawn("gap_analysis")
    /\ ModeButton("overview", "Overview", last_button_click,
                  current_assessment_id, assessments)

\* A new browser session; the data file may already hold assessments.
InitApp ==
    /\ InitReady /\ InitScript /\ InitQuery /\ InitChunkIdle /\ InitTripIdle /\ InitCc
    /\ InitHist
    /\ default_state
    /\ assessments \in BOOLEAN
    /\ apc = "rerun"
    /\ view = "none"
    /\ cview = "none"

NextApp ==
    \/ Run
    \/ StartChat
    \/ SettingsToChat
    \/ SettingsToHomepage
    \/ SettingsToCompliance
    \/ ChatToHomepage
    \/ ChatToSettings
    \/ ChatToCompliance
    \/ ComplianceToHomepage
    \/ ComplianceToChat
    \/ SelectMode
    \/ StartNewAssessment
    \/ ViewAllAssessments
    \/ OverviewViewDetails
    \/ CreateAssessmentForm
    \/ CancelNewAssessment
    \/ ListViewDetails
    \/ BackToOverview

SpecApp == InitApp /\ [][NextApp]_vars

(***************************************************************************)
(* The claims. docs and synthesized are what the grounded chain returned   *)
(* to the call that has just finished.                                     *)
(***************************************************************************)
Returned == pc = "done"

RetrievedDocs == result.source_documents

Synthesized == result.result

\* The answer, trimmed and lower-cased, contains a phrase of the refusal list:
\* the claims' own reading of the condition, tabulated over the model's answers.
HasRefusalPhrase ==
    [a \in Answers \cup LlmOutputs |->
        \E k \in 1..Len(fallback_phrases) :
            PyContains(fallback_phrases[k], PyLower(PyStrip(a)))]

\* The tuple is the ungrounded one, with the direct completion on the raw query as answer.
IsFallbackTuple ==
    /\ directCalls = 1
    /\ llmPrompt = query
    /\ ret.answer = llmOut
    /\ ret.source_list = "Unknown"
    /\ ret.start_page = "N/A"
    /\ ret.end_page = "N/A"

\* C1: when the retriever returns zero passages, generate_response returns
\* source_list "Unknown" and both pages "N/A", and the answer is what the
\* language model returned when invoked directly on the raw query.
C1_EmptyRetrievalFallsBack ==
    (Returned /\ Len(RetrievedDocs) = 0) => IsFallbackTuple

\* C1 witness: no passage, a synthesized answer without any refusal phrase, and
\* the direct completion returned in its place.
C1_Witness ==
    /\ Returned
    /\ Len(RetrievedDocs) = 0
    /\ Synthesized = "Hard hats are required."
    /\ ret.answer = "PPE includes hard hats."
    /\ ret.source_list = "Unknown"

\* C2: when the synthesized answer, trimmed and lower-cased, contains a phrase
\* of the refusal list, the synthesized answer and every retrieved source and
\* page are discarded, however many passages were retrieved: the answer is the
\* direct completion on the raw query, source_list "Unknown", pages "N/A".
C2_RefusalPhraseFallsBack ==
    (Returned /\ HasRefusalPhrase[Synthesized]) => IsFallbackTuple

\* C2 witness: an upper-case refusal surrounded by whitespace, with passages
\* that carry sources and pages, answered by the direct completion.
C2_Witness ==
    /\ Returned
    /\ Synthesized = " I AM NOT SURE.\n"
    /\ Len(RetrievedDocs) = MaxDocs
    /\ \A i \in 1..Len(RetrievedDocs) : RetrievedDocs[i] = Meta("docs/b.pdf", IntPage(3))
    /\ ret.answer = "PPE includes hard hats."
    /\ ret.source_list = "Unknown"
    /\ ret.start_page = "N/A"

\* C3: with at least one retrieved passage and an answer that contains none of
\* the phrases, generate_response returns the synthesized answer unchanged,
\* makes no direct completion call, and reports the sources and pages
\* aggregated from the retrieved passages.
C3_GroundedAnswerKept ==
    (Returned /\ Len(RetrievedDocs) >= 1 /\ ~HasRefusalPhrase[Synthesized]) =>
        /\ ret.answer = Synthesized
        /\ directCalls = 0
        /\ llmOut = ""
        /\ sources = {BaseName(MdGetSource(RetrievedDocs[i])) : i \in 1..Len(RetrievedDocs)}
        /\ \A i \in 1..Len(got.sources) : got.sources[i] \in sources
        /\ Len(got.sources) = Cardinality(sources)
        /\ ret.source_list = PyJoin(", ", got.sources)
        /\ ret.start_page = PageStr(StartPage(pages))
        /\ ret.end_page = PageStr(EndPage(pages))
        /\ Len(pages) = Cardinality({i \in 1..Len(RetrievedDocs) : PyInt(RetrievedDocs[i].page).ok})

\* C3 witness: two passages of two documents, the synthesized answer returned
\* with both documents and their page span.
C3_Witness ==
    /\ Returned
    /\ RetrievedDocs = <<Meta("docs/b.pdf", IntPage(3)), Meta("docs/a.pdf", IntPage(12))>>
    /\ ret.answer = "Hard hats are required."
    /\ ret.source_list = "a.pdf, b.pdf"
    /\ ret.start_page = "3"
    /\ ret.end_page = "12"
    /\ directCalls = 0

\* C4: within one generate_response call the grounded chain is invoked exactly
\* once and the direct completion at most once (once exactly when fallback is
\* needed); the fallback answer is returned as it is, also when it contains a
\* refusal phrase; and a call starts with nothing of the call before it.
C4_SingleFallbackAttempt ==
    /\ chainCalls <= 1
    /\ directCalls <= 1
    /\ Returned =>
        /\ chainCalls = 1
        /\ directCalls = (IF fallback_needed THEN 1 ELSE 0)
        /\ fallback_needed => ret.answer = llmOut
    /\ pc = "llm" => (chainCalls = 1 /\ directCalls = 1 /\ fallback_needed)
    /\ pc = "chain" =>
        /\ chainCalls = 1
        /\ directCalls = 0
        /\ result = NoResult
        /\ ~fallback_needed
        /\ sources = {}
        /\ pages = << >>
        /\ llmOut = ""
        /\ got = NoReturn
        /\ ret = NoResponse

\* C4 witness: the direct completion itself answered with a refusal phrase and
\* that answer was returned, after one call of each.
C4_Witness ==
    /\ Returned
    /\ fallback_needed
    /\ HasRefusalPhrase[llmOut]
    /\ ret.answer = "I don't know."
    /\ chainCalls = 1
    /\ directCalls = 1

\* The source of each retrieved passage ("Unknown" for a passage without one).
SourceIds == {MdGetSource(RetrievedDocs[i]) : i \in 1..Len(RetrievedDocs)}

\* The documents get_answer reports, as a set.
ReportedDocuments == {got.sources[i] : i \in 1..Len(got.sources)}

\* The page numbers of the retrieved passages that carry a usable one.
PagedNumbers ==
    {PyInt(RetrievedDocs[i].page).n :
        i \in {j \in 1..Len(RetrievedDocs) : PyInt(RetrievedDocs[j].page).ok}}

\* C5, as claimed: the documents reported are the distinct source_id values of
\* the grounding passages, sorted, each rendered as its base file name.
C5_DistinctSourceIdsSortedThenRendered ==
    (Returned /\ ~fallback_needed) =>
        got.sources = [i \in 1..Cardinality(SourceIds) |-> BaseName(PySorted(SourceIds)[i])]

\* C5, amended: the documents reported are the distinct base file names of the
\* grounding passages' sources, in increasing lexicographic order; two sources
\* with one base name are listed once and the order is that of the base names.
\* Nothing is reported for a fallback answer.
C5_DistinctBaseNamesSorted ==
    Returned =>
        IF fallback_needed
        THEN got.sources = << >>
        ELSE /\ ReportedDocuments = {BaseName(id) : id \in SourceIds}
             /\ \A i \in 1..Len(got.sources) : \A j \in 1..Len(got.sources) :
                    i < j => StrLess(got.sources[i], got.sources[j])

\* C5 witness: passages of docs/b.pdf, docs/a.pdf and docs/sub/a.pdf ground the
\* answer and a.pdf is reported once, before b.pdf.
C5_Witness ==
    /\ Returned
    /\ ~fallback_needed
    /\ SourceIds = {"docs/b.pdf", "docs/a.pdf", "docs/sub/a.pdf"}
    /\ got.sources = <<"a.pdf", "b.pdf">>
    /\ ret.source_list = "a.pdf, b.pdf"

\* C6: for a grounded answer start_page is the least and end_page the greatest
\* page number among the passages that carry a usable page number, the others
\* being ignored; so start_page <= end_page, with equality when the paged
\* passages share one page, and both are absent when no passage is paged.
C6_PageSpanIsMinMax ==
    (Returned /\ ~fallback_needed) =>
        IF PagedNumbers = {}
        THEN got.start_page = None /\ got.end_page = None
        ELSE /\ ~got.start_page.is_none /\ ~got.end_page.is_none
             /\ got.start_page.n \in PagedNumbers
             /\ got.end_page.n \in PagedNumbers
             /\ \A n \in PagedNumbers : got.start_page.n <= n /\ n <= got.end_page.n
             /\ got.start_page.n <= got.end_page.n
             /\ Cardinality(PagedNumbers) = 1 => got.start_page.n = got.end_page.n
             /\ ret.start_page = PyStr(got.start_page.n)
             /\ ret.end_page = PyStr(got.end_page.n)

\* C6 witness: pages 12, absent and "7": the span is 7 to 12, the passage
\* without a page is not counted as 0 and the order is numeric.
C6_Witness ==
    /\ Returned
    /\ ~fallback_needed
    /\ \E i \in 1..Len(RetrievedDocs) : RetrievedDocs[i].page = NoPage
    /\ PagedNumbers = {7, 12}
    /\ ret.start_page = "7"
    /\ ret.end_page = "12"

\* C7: when every retrieved passage lacks page metadata and the answer is
\* grounded, the page range is ("N/A", "N/A") and source_list still is the
\* joined list of the passages' document names.
C7_NoPagesStillListsDocuments ==
    (Returned /\ ~fallback_needed
        /\ \A i \in 1..Len(RetrievedDocs) : RetrievedDocs[i].page = NoPage) =>
        /\ ret.start_page = "N/A"
        /\ ret.end_page = "N/A"
        /\ Len(got.sources) >= 1
        /\ ReportedDocuments = {BaseName(id) : id \in SourceIds}
        /\ ret.source_list = PyJoin(", ", got.sources)

\* C7 witness: two passages without page, of two documents, both listed.
C7_Witness ==
    /\ Returned
    /\ RetrievedDocs = <<Meta("docs/b.pdf", NoPage), Meta("docs/a.pdf", NoPage)>>
    /\ ret.source_list = "a.pdf, b.pdf"
    /\ ret.start_page = "N/A"
    /\ ret.end_page = "N/A"
    /\ ret.answer = Synthesized

\* A decimal integer string, as str() of an int gives it.
IsDecimalString(t) ==
    \/ AllDigits(t)
    \/ Len(t) > 1 /\ CharAt(t, 1) = "-" /\ AllDigits(SubSeq(t, 2, Len(t)))

PagesBothAbsentOrBothDecimal ==
    \/ ret.start_page = "N/A" /\ ret.end_page = "N/A"
    \/ IsDecimalString(ret.start_page) /\ IsDecimalString(ret.end_page)

C9_CacheByPresence ==
    [][/\ (ipc = "docs_loaded" /\ ipc' \notin {"docs_loaded", "down"}) =>
            IF persisted.exists
            THEN /\ ipc' \in {"ready", "failed"}
                 /\ ipc' = "ready" => (how' = "loaded" /\ vectordb' = persisted)
                 /\ persisted' = persisted
                 /\ embedCalls' = 0
                 /\ saveCalls' = 0
            ELSE ipc' # "failed" =>
                   /\ ipc' = "built"
                   /\ how' = "built"
                   /\ vectordb' = FromTexts(texts)
                   /\ embedCalls' = NumTexts(texts)
       /\ (ipc' = "ready" /\ how' = "built") =>
            /\ vectordb' = FromTexts(texts')
            /\ saveCalls' = 1
            /\ persisted' = vectordb'
            /\ persisted'.exists]_vars

\* C9 witness: a start that loaded the index an earlier start had built and
\* saved, with PDF files loaded and none of their passages embedded.
C9_Witness ==
    /\ ipc = "ready"
    /\ how = "loaded"
    /\ persisted.exists
    /\ vectordb = persisted
    /\ NumTexts(texts) > 0
    /\ embedCalls = 0
    /\ saveCalls = 0

\* C10: once FAISS_INDEX_DIR exists no step of the pipeline and no change of
\* the corpus directory changes it, and every query is served from it: the
\* index served stays the one built from the earlier corpus snapshot.
C10_StaleIndexServed ==
    [][/\ persisted.exists => persisted' = persisted
       /\ served'.exists => served' = persisted']_vars

\* C10 witness: after a restart a query is served from the persisted index
\* although the PDF files of the directory, and the documents this start
\* loaded, are no longer the ones the index was built from.
C10_Witness ==
    /\ ipc = "ready"
    /\ how = "loaded"
    /\ served.exists
    /\ served = persisted
    /\ served.snap # LoadAndSplit(corpus)
    /\ served.snap # texts

\* C11 (as claimed): a build over an empty corpus does not fail. Whenever a
\* builder that found no persisted index and loaded zero passages goes on, it
\* has an index in memory and has not failed, be it the pipeline or the script.
C11_EmptyCorpusBuildYieldsIndex ==
    [][/\ (/\ ipc = "docs_loaded"
           /\ ~persisted.exists
           /\ NumTexts(texts) = 0
           /\ ipc' \notin {"docs_loaded", "down"}) =>
            (ipc' # "failed" /\ vectordb'.exists)
       /\ (/\ spc = "docs_loaded"
           /\ key
           /\ NumTexts(sdocs) = 0
           /\ spc' # "docs_loaded") =>
            (spc' # "failed" /\ sdb'.exists)]_vars

\* An index some process wrote or is writing into FAISS_INDEX_DIR in this step.
WrittenInStep == persisted' # persisted \/ intact' # intact

\* C12: when the embedding capability fails during construction, the builder
\* ends in an error with no index in memory and FAISS_INDEX_DIR as it was; a
\* failed builder does nothing more than end; and whatever is written into
\* FAISS_INDEX_DIR is written by a builder that has not failed and is an index
\* of at least one passage, so no later start finds an index a failed build left.
C12_EmbeddingFailureLeavesNoIndex ==
    [][/\ (err' = "EmbeddingError" /\ err # "EmbeddingError") =>
            /\ ipc' = "failed"
            /\ ~vectordb'.exists
            /\ saveCalls' = 0
            /\ ~WrittenInStep
       /\ (serr' = "EmbeddingError" /\ serr # "EmbeddingError") =>
            /\ spc' = "failed"
            /\ ~sdb'.exists
            /\ ~WrittenInStep
       /\ (ipc = "failed" /\ ipc' # ipc) => (ipc' = "down" /\ ~WrittenInStep)
       /\ (spc = "failed" /\ spc' # spc) => (spc' = "down" /\ ~WrittenInStep)
       /\ WrittenInStep =>
            /\ persisted'.exists
            /\ NumTexts(persisted'.snap) > 0
            /\ \/ ipc' = "saving" /\ err' = "none" /\ persisted' = vectordb'
               \/ ipc' = "ready" /\ err' = "none" /\ ipc = "saving"
               \/ spc' = "saving" /\ serr' = "none" /\ persisted' = sdb'
               \/ spc' = "done" /\ serr' = "none" /\ spc = "saving"]_vars

\* C12 witness: the pipeline's build and the script's build both ended in an
\* embedding failure over PDF files, and FAISS_INDEX_DIR does not exist.
C12_Witness ==
    /\ ipc = "failed"
    /\ err = "EmbeddingError"
    /\ NumTexts(texts) > 0
    /\ spc = "failed"
    /\ serr = "EmbeddingError"
    /\ NumTexts(sdocs) > 0
    /\ ~persisted.exists
    /\ ~vectordb.exists
    /\ ~sdb.exists

\* C13: without OPENAI_API_KEY the import of rag_pipeline.py ends in an error
\* (ValueError) with no document loaded, no index built or loaded, nothing
\* embedded or saved, and it never gets to where generate_response exists, so
\* no query is served.
C13_NoKeyNoInitialisation ==
    ~key =>
        /\ ipc \in {"down", "failed"}
        /\ ipc = "failed" => err = "ValueError"
        /\ texts = NoTexts
        /\ ~vectordb.exists
        /\ how = "none"
        /\ embedCalls = 0
        /\ saveCalls = 0
        /\ ~served.exists

\* C13 witness: the key is missing and the import has failed, although PDF
\* files are there to load and an index of an earlier run is there to load.
C13_Witness ==
    /\ ~key
    /\ ipc = "failed"
    /\ err = "ValueError"
    /\ NumTexts(LoadAndSplit(corpus)) > 0
    /\ persisted.exists
    /\ intact

\* C14: when FAISS_INDEX_DIR exists and does not load, the import ends in an
\* error that is not the one of the empty corpus, nothing is embedded, no
\* index is in memory and FAISS_INDEX_DIR is left as it is.
C14_LoadFailureSurfaces ==
    [][(/\ ipc = "docs_loaded"
        /\ persisted.exists
        /\ ~intact
        /\ ipc' \notin {"docs_loaded", "down"}) =>
          /\ ipc' = "failed"
          /\ err' = "LoadError"
          /\ err' # "IndexError"
          /\ ~vectordb'.exists
          /\ how' = "none"
          /\ embedCalls' = 0
          /\ saveCalls' = 0
          /\ persisted' = persisted
          /\ intact' = intact]_vars

\* C14 witness: a start that loaded PDF files found the directory an
\* interrupted save had left, and failed on loading it.
C14_Witness ==
    /\ ipc = "failed"
    /\ err = "LoadError"
    /\ persisted.exists
    /\ ~intact
    /\ NumTexts(texts) > 0
    /\ ~vectordb.exists
    /\ embedCalls = 0

\* C16: the retriever searches for a query only in a process whose import has
\* run to its end with an index in memory, and, when this process had to
\* build, with that index completely saved in FAISS_INDEX_DIR.
C16_NoQueryBeforeIndexComplete ==
    [][(served' # served /\ served'.exists) =>
          /\ ipc = "ready"
          /\ vectordb.exists
          /\ served' = vectordb
          /\ how \in {"loaded", "built"}
          /\ how = "built" => (persisted = vectordb /\ intact /\ saveCalls = 1)]_vars

\* C16 witness: the first query of a process that found no index is served
\* from the index this process built and saved.
C16_Witness ==
    /\ ipc = "ready"
    /\ how = "built"
    /\ served.exists
    /\ served = vectordb
    /\ persisted = vectordb
    /\ intact

\* C15: a call that ended with an exception has returned no tuple, from
\* get_answer or from generate_response, and has called the chain once and
\* the direct completion at most once; when it was the chain that failed, the
\* direct completion was not called at all. The direct completion is called
\* only after the chain has returned, and after an exception nothing happens
\* but a new call, which starts with its own single call of the chain.
C15_FailurePropagates ==
    [][/\ pc' = "error" =>
            /\ ret' = NoResponse
            /\ got' = NoReturn
            /\ chainCalls' = 1
            /\ directCalls' <= 1
            /\ result' = NoResult =>
                 (directCalls' = 0 /\ llmPrompt' = "" /\ llmOut' = "")
            /\ result' # NoResult =>
                 (fallback_needed' /\ directCalls' = 1 /\ llmOut' = "")
       /\ pc' \in {"llm", "done"} => result' # NoResult
       /\ (pc = "error" /\ pc' # "error") =>
            (pc' = "chain" /\ chainCalls' = 1 /\ directCalls' = 0)]_vars

\* C15 witness: the chain has raised: the call has ended without a tuple and
\* without a call of the direct completion.
C15_Witness ==
    /\ pc = "error"
    /\ result = NoResult
    /\ ret = NoResponse
    /\ chainCalls = 1
    /\ directCalls = 0

\* What a call returns, from what the chain and the direct completion gave it.
ReturnFor(res, out) ==
    IF res.source_documents = << >> \/ HasRefusalPhrase[res.result]
    THEN Response(GetAnswerReturn(out, {}, << >>))
    ELSE Response(GetAnswerReturn(res.result, SourcesOf(res.source_documents),
                                  PagesOf(res.source_documents)))

\* C17: no step of a generate_response call changes the index in memory, the
\* persisted index, or anything else the import of the module set up, and
\* the tuple a call returns is determined by what the chain and the direct
\* completion returned to this very call.
C17_QueryChangesNoPipelineState ==
    [][/\ vectordb' = vectordb
       /\ persisted' = persisted
       /\ intact' = intact
       /\ texts' = texts
       /\ ipc' = ipc
       /\ embedCalls' = embedCalls
       /\ saveCalls' = saveCalls
       /\ pc' = "done" => ret' = ReturnFor(result', llmOut')]_vars

\* C17 witness: a call has returned a grounded answer, and the index in
\* memory and the persisted index are those the start built and saved.
C17_Witness ==
    /\ Returned
    /\ ~fallback_needed
    /\ RetrievedDocs # << >>
    /\ ret = ReturnFor(result, llmOut)
    /\ vectordb.exists
    /\ persisted = vectordb
    /\ vectordb = FromTexts(LoadAndSplit(corpus))

\* C18 (as claimed): the persisted index is replaced atomically. Whenever
\* FAISS_INDEX_DIR exists, at any point of any build, its files are those of
\* one complete index, so a process that finds the directory can load it.
C18_AtomicReplace == persisted.exists => intact

\* A process is constructing or writing the index.
PipelineConstructs == ipc \in {"built", "saving"}

ScriptConstructs == spc \in {"built", "saving"}

\* C19 (as claimed): single-writer discipline. The pipeline process and the
\* script never construct or write the index at the same time, and the
\* retriever searches for no query while a construction is in progress.
C19_SingleWriter ==
    [][/\ ~(PipelineConstructs' /\ ScriptConstructs')
       /\ (served' # served /\ served'.exists) => ~ScriptConstructs]_vars

\* The splitter's overlap is not negative and less than its chunk size.
ValidSplitter(sp) == 0 <= sp.chunk_overlap /\ sp.chunk_overlap < sp.chunk_size

\* The indexes there are: in FAISS_INDEX_DIR, in the memory of the pipeline
\* process and of the script, and the one the retriever searched.
Indexes == {persisted, vectordb, sdb, served}

\* C20: every index built, by the pipeline or by the script, has its passages
\* cut with exactly one splitter, whose overlap is at least zero and less
\* than its chunk size.
C20_OneValidSplitterPerIndex ==
    \A ix \in Indexes :
        /\ ix.exists => Cardinality(ix.splitters) = 1
        /\ \A sp \in ix.splitters : ValidSplitter(sp)

\* C20 witness: the pipeline process holds the index it built with its
\* splitter while FAISS_INDEX_DIR holds the one the script built with its own.
C20_Witness ==
    /\ vectordb.exists
    /\ vectordb.splitters = {[chunk_size |-> 1000, chunk_overlap |-> 200]}
    /\ persisted.exists
    /\ intact
    /\ persisted.splitters = {[chunk_size |-> 800, chunk_overlap |-> 120]}

\* The number of passages before position k of docs that are of the same
\* source document as the passage at k.
EarlierOfSameSource(k) ==
    Cardinality({j \in 1..(k - 1) : cdocs[j].source = cdocs[k].source})

\* C21 (as claimed): every passage carries a chunk_index that is its ordinal
\* position within its source document, so the chunk_index values of one
\* document are 0, 1, 2, ... and (source, chunk_index) names one passage.
C21_ChunkIndexIsOrdinal ==
    \A k \in 1..Len(cdocs) : cdocs[k].chunk_index = Some(EarlierOfSameSource(k))

RECURSIVE SeqSum(_)
SeqSum(ns) == IF ns = << >> THEN 0 ELSE ns[1] + SeqSum(Tail(ns))

\* The positions (category, requirement) of an assessment's requirements.
ReqPositions(a) ==
    {<<c, r>> \in (1..Len(a.categories)) \X (1..(ReqsPerCategory + 1)) :
        r <= Len(a.categories[c].requirements)}

ReqAt(a, p) == a.categories[p[1]].requirements[p[2]]

\* The counts an assessment keeps are those of its requirements.
ScoresConsistent(a) ==
    /\ \A c \in 1..Len(a.categories) :
          a.categories[c].compliant_reqs =
              Cardinality({p \in ReqPositions(a) :
                             p[1] = c /\ ReqAt(a, p).status = "compliant"})
    /\ a.compliant_requirements =
          SeqSum([c \in 1..Len(a.categories) |-> a.categories[c].compliant_reqs])
    /\ a.total_requirements =
          SeqSum([c \in 1..Len(a.categories) |-> a.categories[c].total_reqs])
    /\ a.total_requirements = Cardinality(ReqPositions(a))
    /\ 0 <= a.compliant_requirements
    /\ a.compliant_requirements <= a.total_requirements

\* C23: after any sequence of create_assessment and update_requirement_status
\* calls every stored assessment has compliant_reqs of each category equal to
\* the number of its compliant requirements, compliant_requirements equal to
\* their sum, total_requirements equal to the sum of total_reqs and to the
\* number of requirements, and 0 <= compliant_requirements <= total_requirements.
C23_ScoresConsistent ==
    \A k \in 1..Len(store) : ScoresConsistent(store[k])

\* C23 witness: an update has just made a second requirement of an
\* assessment compliant, in another category than the first.
C23_Witness ==
    /\ ccRet.op = "update"
    /\ ccRet.value = "True"
    /\ ccRet.status = "compliant"
    /\ store # ccBefore
    /\ \E k \in 1..Len(store) :
          /\ store[k].compliant_requirements = 2
          /\ store[k].categories[1].compliant_reqs = 1

\* The position in the store, as it was before the call, of the assessment
\* the call names (0: none).
TargetBefore == FindAssessment(ccBefore, ccRet.id)

\* The arguments of the last update name a requirement: a known assessment,
\* and positions within 0..length-1 of its lists.
UpdateArgsValid ==
    /\ TargetBefore # 0
    /\ 0 <= ccRet.category_index
    /\ ccRet.category_index < Len(ccBefore[TargetBefore].categories)
    /\ 0 <= ccRet.req_index
    /\ ccRet.req_index <
          Len(ccBefore[TargetBefore].categories[ccRet.category_index + 1].requirements)

\* C24 (as claimed): update_requirement_status returns False and leaves the
\* store unchanged when the id is unknown or an index is no valid position,
\* negative ones included; otherwise it returns True and has changed the
\* requirement at (category_index, req_index) of that assessment and no
\* other requirement and no other assessment.
C24_UpdateOnlyAtValidPosition ==
    ccRet.op = "update" =>
        IF UpdateArgsValid
        THEN /\ ccRet.value = "True"
             /\ Len(store) = Len(ccBefore)
             /\ \A k \in 1..Len(store) : k # TargetBefore => store[k] = ccBefore[k]
             /\ \A p \in ReqPositions(store[TargetBefore]) :
                   IF p = <<ccRet.category_index + 1, ccRet.req_index + 1>>
                   THEN /\ ReqAt(store[TargetBefore], p).status = ccRet.status
                        /\ ReqAt(store[TargetBefore], p).priority = ccRet.priority
                   ELSE ReqAt(store[TargetBefore], p) = ReqAt(ccBefore[TargetBefore], p)
        ELSE /\ ccRet.value = "False"
             /\ store = ccBefore

\* C25 (as claimed): every create_assessment call adds exactly one new
\* assessment, with every requirement "not_assessed" and score 0, and leaves
\* every assessment stored before as it was, two calls in one second included.
C25_CreateAddsOne ==
    ccRet.op = "create" =>
        /\ Len(store) = Len(ccBefore) + 1
        /\ SubSeq(store, 1, Len(ccBefore)) = ccBefore
        /\ store[Len(store)].overall_score = 0
        /\ \A p \in ReqPositions(store[Len(store)]) :
              ReqAt(store[Len(store)], p).status = "not_assessed"

\* The gap lists of an analysis, by name.
GapListNames ==
    {"critical_gaps", "high_priority_gaps", "medium_priority_gaps", "low_priority_gaps"}

\* How often the requirement at a position is in a gap list of the last analysis.
TimesInList(a, p, list) ==
    Cardinality({i \in 1..Len(ccRet.value[list]) :
                   /\ ccRet.value[list][i].requirement = ReqAt(a, p).text
                   /\ ccRet.value[list][i].category = a.categories[p[1]].name})

\* The gap list the claim puts a priority into.
ClaimedList(priority) ==
    CASE priority = "critical" -> "critical_gaps"
      [] priority = "high" -> "high_priority_gaps"
      [] priority = "medium" -> "medium_priority_gaps"
      [] OTHER -> "low_priority_gaps"

\* C26: generate_gap_analysis puts every requirement that is not compliant
\* into exactly one gap list, the one of its priority (low for any other
\* priority), and no compliant requirement into any; the lists hold nothing
\* else; the action plan has one entry for each critical, then each high,
\* then each medium gap, and none for a low one; the store is not changed.
C26_GapAnalysisPartitions ==
    (ccRet.op = "gaps" /\ ~ccRet.value.empty) =>
        LET a == store[FindAssessment(store, ccRet.id)]
            g == ccRet.value
            nc == Len(g.critical_gaps)
            nh == Len(g.high_priority_gaps)
            nm == Len(g.medium_priority_gaps)
        IN  /\ store = ccBefore
            /\ \A p \in ReqPositions(a), list \in GapListNames :
                  TimesInList(a, p, list) =
                      IF /\ ReqAt(a, p).status # "compliant"
                         /\ list = ClaimedList(ReqAt(a, p).priority)
                      THEN 1 ELSE 0
            /\ nc + nh + nm + Len(g.low_priority_gaps) =
                  Cardinality({p \in ReqPositions(a) : ReqAt(a, p).status # "compliant"})
            /\ Len(g.action_plan) = nc + nh + nm
            /\ \A i \in 1..Len(g.action_plan) :
                  LET e == g.action_plan[i]
                  IN  IF i <= nc
                      THEN /\ e.priority = "Critical"
                           /\ e.action = <<g.critical_gaps[i].requirement,
                                           g.critical_gaps[i].category>>
                      ELSE IF i <= nc + nh
                      THEN /\ e.priority = "High"
                           /\ e.action = <<g.high_priority_gaps[i - nc].requirement,
                                           g.high_priority_gaps[i - nc].category>>
                      ELSE /\ e.priority = "Medium"
                           /\ e.action = <<g.medium_priority_gaps[i - nc - nh].requirement,
                                           g.medium_priority_gaps[i - nc - nh].category>>

\* C26 witness: an analysis of an assessment with a compliant requirement, a
\* gap of a priority that is none of the four names, and medium gaps: the
\* plan has the medium gaps only.
C26_Witness ==
    /\ ccRet.op = "gaps"
    /\ ~ccRet.value.empty
    /\ Len(ccRet.value.critical_gaps) = 0
    /\ Len(ccRet.value.low_priority_gaps) = 1
    /\ ccRet.value.low_priority_gaps[1].priority = "urgent"
    /\ Len(ccRet.value.medium_priority_gaps) > 0
    /\ store[FindAssessment(store, ccRet.id)].compliant_requirements = 1
    /\ Len(ccRet.value.action_plan) = Len(ccRet.value.medium_priority_gaps)

\* The entries of the file whose session is this one, in the file's order.
OfSession(name) ==
    LET InSession(e) == e.session = name
    IN  SelectSeq(hfile, InSession)

\* A list of strings in ascending order without repetition.
AscendingDistinct(names) ==
    \A i \in 1..(Len(names) - 1) : StrLess(names[i], names[i + 1])

\* C27: under sequential use a save_to_history call appends exactly one
\* entry, the one of its arguments, at the end of the history and leaves the
\* earlier entries and their order as they were; load_session(s) returns
\* exactly the entries of session s in history order; get_sessions returns
\* the distinct session names present, sorted.
C27_HistoryAppendOnly ==
    [][/\ hfile' # hfile =>
            /\ Len(hfile') = Len(hfile) + 1
            /\ SubSeq(hfile', 1, Len(hfile)) = hfile
            /\ \E c \in Callers : hpc[c] = "loaded" /\ hfile'[Len(hfile')] = hentry[c]
       /\ hdone' # hdone => hfile' # hfile
       /\ (hout' # hout /\ hout'.op = "load_session") =>
            (hfile' = hfile /\ hout'.value = OfSession(hout'.session))
       /\ (hout' # hout /\ hout'.op = "get_sessions") =>
            /\ hfile' = hfile
            /\ AscendingDistinct(hout'.value)
            /\ {hout'.value[i] : i \in 1..Len(hout'.value)} =
                  {hfile[i].session : i \in 1..Len(hfile)}]_vars

\* C27 witness: three entries of sessions "a", "B", "a" were saved one after
\* the other, and get_sessions has returned the sorted names "B", "a".
C27_Witness ==
    /\ Len(hfile) = 3
    /\ hfile[1].session = "a"
    /\ hfile[2].session = "B"
    /\ hfile[3].session = "a"
    /\ hfile[3].question = 3
    /\ hout.op = "get_sessions"
    /\ hout.value = <<"B", "a">>

\* C28 (as claimed): whatever the interleaving of concurrent save_to_history
\* calls, the file holds the entry of every call that has returned: no entry
\* is lost.
C28_NoEntryLost ==
    \A e \in hdone : \E i \in 1..Len(hfile) : hfile[i] = e

\* The view flags that are set.
FlagsSet ==
    {f \in {"homepage", "settings", "compliance"} :
        \/ f = "homepage" /\ show_homepage
        \/ f = "settings" /\ show_settings
        \/ f = "compliance" /\ show_compliance}

\* C29: in every state reached through the navigation buttons at most one of
\* show_homepage, show_settings and show_compliance is true, and the one
\* view a finished run has rendered is the view of the flag that is set, or
\* the chat when none is: the routing priority hides no view.
C29_AtMostOneViewFlag ==
    /\ Cardinality(FlagsSet) <= 1
    /\ apc = "shown" =>
         /\ view \in {"homepage", "settings", "compliance", "chat"}
         /\ \A f \in FlagsSet : view = f
         /\ FlagsSet = {} => view = "chat"

\* C29 witness: the compliance interface is on screen, reached by a
\* "Compliance Checker" button, with only its own flag set.
C29_Witness ==
    /\ apc = "shown"
    /\ view = "compliance"
    /\ FlagsSet = {"compliance"}
    /\ last_button_click = "compliance"
    /\ previous_sidebar_mode = "None"

\* A run of the compliance interface follows a click made in it.
RunAfterComplianceClick ==
    /\ apc = "rerun"
    /\ view = "compliance"
    /\ view' = "compliance"

=============================================================================
